---------------------------- MODULE Spec2Model ----------------------------
(***************************************************************************)
(* A model of tracerz (src/tracerz.h): the parse tree of a generative      *)
(* grammar, its incremental depth-first expansion (Tree::expand), the      *)
(* runtime dictionary of key stacks, and flattening with modifiers.        *)
(*                                                                         *)
(* A text (std::string) is a sequence of characters, each character a      *)
(* one-character string: "#r#" is <<"#", "r", "#">>.  The regular          *)
(* expressions of namespace details are operators over such sequences.     *)
(***************************************************************************)
EXTENDS Integers, Sequences, FiniteSets, TLC

(***************************************************************************)
(* Characters and elementary text operations                               *)
(***************************************************************************)

\* [[:alnum:]] restricted to the characters the model's texts use
Alnum == {"a", "b", "c", "d", "e", "f", "g", "h", "i", "j", "k", "l", "m",
          "n", "o", "p", "q", "r", "s", "t", "u", "v", "w", "x", "y", "z",
          "0", "1", "2"}

\* s[from..to], the empty text when from > to
Sub(s, from, to) == IF from > to THEN <<>> ELSE SubSeq(s, from, to)

\* the index of the first position >= i whose character is not in set S (Len(s)+1 if none)
RECURSIVE SkipWhile(_, _, _)
SkipWhile(s, i, S) ==
  IF i > Len(s) THEN i
  ELSE IF s[i] \in S THEN SkipWhile(s, i + 1, S)
  ELSE i

\* the index of the first position >= i whose character is in set S (Len(s)+1 if none)
RECURSIVE SkipUntil(_, _, _)
SkipUntil(s, i, S) ==
  IF i > Len(s) THEN i
  ELSE IF s[i] \in S THEN i
  ELSE SkipUntil(s, i + 1, S)

(***************************************************************************)
(* The regular expressions of namespace details                            *)
(***************************************************************************)

\* (?:\.[^.#]+)* matched greedily from position i: the position after the last
\* modifier.  A modifier is a dot followed by one or more characters other
\* than '.' and '#'; a run of such characters cannot be cut short, since what
\* follows a modifier is a dot, a '#', or the end.
RECURSIVE ModsEnd(_, _)
ModsEnd(s, i) ==
  IF i <= Len(s) /\ s[i] = "."
  THEN LET e == SkipUntil(s, i + 1, {".", "#"})
       IN IF e > i + 1 THEN ModsEnd(s, e) ELSE i
  ELSE i

\* [[:alnum:]]+((?:\.[^.#]+)*)# matched at position i: the position of the
\* closing '#', or 0 when there is no match
NameModsEnd(s, i) ==
  LET n == SkipWhile(s, i, Alnum)
      m == ModsEnd(s, n)
  IN IF n > i /\ m <= Len(s) /\ s[m] = "#" THEN m ELSE 0

\* (?:\[[^\]]*\])* matched greedily from position i: the position after the
\* last complete bracket group
RECURSIVE GroupsEnd(_, _)
GroupsEnd(s, i) ==
  IF i <= Len(s) /\ s[i] = "["
  THEN LET e == SkipUntil(s, i + 1, {"]"})
       IN IF e <= Len(s) THEN GroupsEnd(s, e + 1) ELSE i
  ELSE i

\* getRuleRegex matched at position i: the position of the closing '#', or 0
RuleMatchEnd(s, i) ==
  IF i <= Len(s) /\ s[i] = "#" THEN NameModsEnd(s, GroupsEnd(s, i + 1)) ELSE 0

\* the first position >= i at which getRuleRegex matches (0 if none)
RECURSIVE RuleSearch(_, _)
RuleSearch(s, i) ==
  IF i > Len(s) THEN 0
  ELSE IF RuleMatchEnd(s, i) > 0 THEN i
  ELSE RuleSearch(s, i + 1)

containsRule(s) == RuleSearch(s, 1) > 0

containsOnlyActions(s) == s # <<>> /\ s[1] = "[" /\ GroupsEnd(s, 1) = Len(s) + 1

containsOnlyRule(s) ==
  Len(s) >= 3 /\ s[1] = "#" /\ NameModsEnd(s, 2) = Len(s)

\* the captures of getOnlyRuleRegex: $1 the rule name, $2 the string of modifiers
OnlyRuleName(s) == Sub(s, 2, SkipWhile(s, 2, Alnum) - 1)

OnlyRuleMods(s) == Sub(s, SkipWhile(s, 2, Alnum), Len(s) - 1)

\* getOnlyRuleWithActionsRegex: '#', one or more groups \[.*\], a name, modifiers, '#'.
\* '.*' is greedy, so the captured actions end at the last ']' after which the
\* rest of the text is a name with modifiers and the closing '#'.
ActionsEndSet(s) ==
  {p \in 3..Len(s) : s[p] = "]" /\ NameModsEnd(s, p + 1) = Len(s)}

containsOnlyRuleWithActions(s) ==
  Len(s) >= 5 /\ s[1] = "#" /\ s[2] = "[" /\ ActionsEndSet(s) # {}

ActionsEnd(s) == CHOOSE p \in ActionsEndSet(s) : \A q \in ActionsEndSet(s) : q <= p

\* $1 of getOnlyRuleWithActionsRegex
RuleActions(s) == Sub(s, 2, ActionsEnd(s))

\* $2$3 of getOnlyRuleWithActionsRegex
RuleAfterActions(s) == Sub(s, ActionsEnd(s) + 1, Len(s) - 1)

containsOnlyKeylessRuleAction(s) ==
  Len(s) >= 5 /\ s[1] = "[" /\ s[Len(s)] = "]"
  /\ containsOnlyRule(Sub(s, 2, Len(s) - 1))

\* $1 of getOnlyKeylessRuleActionRegex
KeylessRule(s) == Sub(s, 2, Len(s) - 1)

\* the position of the ':' ending the key of "[key:...", or 0
KeyColon(s) ==
  IF Len(s) >= 2 /\ s[1] = "["
  THEN LET c == SkipWhile(s, 2, Alnum)
       IN IF c > 2 /\ c <= Len(s) /\ s[c] = ":" THEN c ELSE 0
  ELSE 0

containsOnlyKeyWithRuleAction(s) ==
  KeyColon(s) > 0 /\ s[Len(s)] = "]"
  /\ containsOnlyRule(Sub(s, KeyColon(s) + 1, Len(s) - 1))

containsOnlyKeyWithTextAction(s) ==
  KeyColon(s) > 0 /\ s[Len(s)] = "]"
  /\ Len(s) - 1 >= KeyColon(s) + 1
  /\ SkipUntil(s, KeyColon(s) + 1, {"#", "]"}) = Len(s)

\* $1 and $2 of getOnlyKeyWithRuleActionRegex and of getOnlyKeyWithTextActionRegex
ActionKey(s) == Sub(s, 2, KeyColon(s) - 1)

ActionValue(s) == Sub(s, KeyColon(s) + 1, Len(s) - 1)

\* regex_match against getParametricModifierRegex: name, '(', parameters, ')'
ParenPos(s) == SkipUntil(s, 1, {"("})

containsParametricModifier(s) ==
  /\ ParenPos(s) > 1
  /\ ParenPos(s) < Len(s)
  /\ s[Len(s)] = ")"
  /\ SkipUntil(s, ParenPos(s) + 1, {")"}) = Len(s)

(***************************************************************************)
(* std::sregex_token_iterator                                              *)
(***************************************************************************)

\* tokens of s between commas (getCommaRegex, submatch -1): the text before
\* each comma, and the text after the last one unless it is empty; a text
\* without a comma is its own single token, also when it is empty
RECURSIVE SplitFrom(_, _)
SplitFrom(s, i) ==
  LET c == SkipUntil(s, i, {","})
  IN IF c > Len(s)
     THEN IF i > Len(s) THEN <<>> ELSE <<Sub(s, i, Len(s))>>
     ELSE <<Sub(s, i, c - 1)>> \o SplitFrom(s, c + 1)

SplitCommas(s) == IF s = <<>> THEN << <<>> >> ELSE SplitFrom(s, 1)

\* the matches of getModifierRegex in a modifier string (submatch 0), each
\* without its leading dot: a dot and the non-dot characters that follow it
RECURSIVE ModTokens(_, _)
ModTokens(s, i) ==
  LET d == SkipUntil(s, i, {"."})
      e == SkipUntil(s, d + 1, {"."})
  IN IF d > Len(s) THEN <<>>
     ELSE IF e > d + 1 THEN <<Sub(s, d + 1, e - 1)>> \o ModTokens(s, e)
     ELSE ModTokens(s, d + 1)

\* the matches of getActionRegex (submatch 0): each bracket group
RECURSIVE ActionTokens(_, _)
ActionTokens(s, i) ==
  LET o == SkipUntil(s, i, {"["})
      c == SkipUntil(s, o + 1, {"]"})
  IN IF o > Len(s) THEN <<>>
     ELSE IF c <= Len(s) THEN <<Sub(s, o, c)>> \o ActionTokens(s, c + 1)
     ELSE ActionTokens(s, o + 1)

\* the tokens of getRuleRegex with submatches {-1, 0}: the text before each
\* rule, the rule, and the text after the last rule unless it is empty
RECURSIVE RuleTokens(_, _)
RuleTokens(s, i) ==
  LET m == RuleSearch(s, i)
  IN IF m = 0
     THEN IF i > Len(s) THEN <<>> ELSE <<Sub(s, i, Len(s))>>
     ELSE LET e == RuleMatchEnd(s, m)
          IN <<Sub(s, i, m - 1), Sub(s, m, e)>> \o RuleTokens(s, e + 1)

(***************************************************************************)
(* nlohmann::json values, as far as the grammar uses them                  *)
(***************************************************************************)

\* a json value: its type tag t; s the text of a string; a the elements of an
\* array (strings), or the "values" member of an object; h the "handler"
\* member of an object (absent: <<>>, present: <<name>>)
JNull == [t |-> "null", s |-> <<>>, a |-> <<>>, h |-> <<>>]

JStr(x) == [t |-> "string", s |-> x, a |-> <<>>, h |-> <<>>]

JArr(xs) == [t |-> "array", s |-> <<>>, a |-> xs, h |-> <<>>]

JObj(handler, xs) == [t |-> "object", s |-> <<>>, a |-> xs, h |-> handler]

JNum == [t |-> "number", s |-> <<>>, a |-> <<>>, h |-> <<>>]

\* no value: the lookup did not return, the assertion in operator[] failed
JAbort == [t |-> "abort", s |-> <<>>, a |-> <<>>, h |-> <<>>]

(***************************************************************************)
(* The state                                                               *)
(***************************************************************************)
VARIABLES
  jsonGrammar,        \* Grammar::jsonGrammar: rule name -> json value
  input,              \* the start text given to Grammar::getTree
  mode,               \* "flatten": Grammar::flatten drives the tree;
                      \* "step": the caller drives Tree::expand and Tree::flatten
  nodes,              \* the tree's nodes, the root first; a node is named by its index
  runtimeDictionary,  \* Tree::runtimeDictionary: key -> stack of json values, top last
  expandingNodes,     \* Tree::expandingNodes: stack of node indices, top last
  phase,              \* "expanding", "expanded" (expand has returned false), "flattened"
                      \* (Grammar::flatten is over), "threw" (Tree::expand threw),
                      \* "aborted" (an assertion failed), "exhausted" (an
                      \* allocation failed)
  results,            \* the outcome of every Tree::flatten call on this tree, in order
  history,            \* every call made on this tree, in order, with what it did
  calls,              \* the number of calls of Tree::expand made on this tree
  run,                \* 1: the first tree of this grammar, 2: the second
  tape,               \* the values the randomness source has produced for this tree
  replay,             \* the values the randomness source will produce, when fixed in advance
  firstRun            \* what the first tree's run ended with, once a second tree exists

vars == <<jsonGrammar, input, mode, nodes, runtimeDictionary, expandingNodes,
          phase, results, history, calls, run, tape, replay, firstRun>>

(***************************************************************************)
(* TreeNode                                                                *)
(***************************************************************************)

\* TreeNode::TreeNode.  keyName is a std::optional: <<>> or <<key>>.
TreeNode(text) ==
  [input |-> text,
   isNodeComplete_ |-> ~containsRule(text) /\ ~containsOnlyActions(text),
   isNodeHidden_ |-> FALSE,
   children |-> <<>>,
   keyName |-> <<>>,
   modifiers |-> <<>>]

\* addChild as it would be if the child did not take over the hidden flag
addChild_Visible(ns, parent, text) ==
  [Append(ns, TreeNode(text)) EXCEPT ![parent].children = Append(@, Len(ns) + 1)]

\* TreeNode::addChild: the child is appended to ns and to parent's children
addChild(ns, parent, text) ==
  LET child == [TreeNode(text) EXCEPT !.isNodeHidden_ = ns[parent].isNodeHidden_]
  IN [Append(ns, child) EXCEPT ![parent].children = Append(@, Len(ns) + 1)]

RECURSIVE addChildren(_, _, _)
addChildren(ns, parent, texts) ==
  IF texts = <<>> THEN ns
  ELSE addChildren(addChild(ns, parent, Head(texts)), parent, Tail(texts))

hasChildren(ns, n) == ns[n].children # <<>>

areChildrenComplete(ns, n) ==
  \A i \in 1..Len(ns[n].children) : ns[ns[n].children[i]].isNodeComplete_

\* TreeNode::getLastExpandableChild: 0 stands for nullptr
getLastExpandableChild(ns, n) ==
  LET c == ns[n].children
      open == {i \in 1..Len(c) : ~ns[c[i]].isNodeComplete_}
  IN IF open = {} THEN 0 ELSE c[CHOOSE i \in open : \A j \in open : j <= i]

\* the texts of ts that are not empty, in order
RECURSIVE NonEmpty(_)
NonEmpty(ts) ==
  IF ts = <<>> THEN <<>>
  ELSE IF Head(ts) = <<>> THEN NonEmpty(Tail(ts))
  ELSE <<Head(ts)>> \o NonEmpty(Tail(ts))

(***************************************************************************)
(* Modifiers                                                               *)
(***************************************************************************)

\* What a call reports of what it did.  op: "expand" (node expanded),
\* "draw" (the distribution consulted for node, rule key), "resolve"
\* (only-rule node resolved rule key to the text val.s), "bind" (val pushed on
\* key's stack for node), "invoke" (modifier key called on node; ok: the
\* parameter count matched), "pop" (key's stack popped by pop!! on node),
\* "done" (node popped off the expansion stack).
Event(op, n, key, val, ok) == [op |-> op, node |-> n, key |-> key, val |-> val, ok |-> ok]

\* pop!! as it would be if it left the key with its emptied stack
PopModifier_KeepKey(dict, ruleName) ==
  IF ruleName \in DOMAIN dict /\ dict[ruleName] # <<>>
  THEN [dict EXCEPT ![ruleName] = SubSeq(@, 1, Len(@) - 1)]
  ELSE dict

\* pop!! as it would be if it dropped the whole stack of the rule
PopModifier_All(dict, ruleName) == [k \in DOMAIN dict \ {ruleName} |-> dict[k]]

\* the modifier pop!! of getBaseExtendedModifiers: the dictionary after the call
PopModifier(dict, ruleName) ==
  IF ruleName \in DOMAIN dict /\ dict[ruleName] # <<>>
  THEN IF Len(dict[ruleName]) = 1
       THEN [k \in DOMAIN dict \ {ruleName} |-> dict[k]]
       ELSE [dict EXCEPT ![ruleName] = SubSeq(@, 1, Len(@) - 1)]
  ELSE dict

\* pop!! as it would be if it returned the value it pops
PopModifierOutput_Top(dict, ruleName) ==
  IF ruleName \in DOMAIN dict /\ dict[ruleName] # <<>>
  THEN dict[ruleName][Len(dict[ruleName])].s
  ELSE <<>>

\* what pop!! returns
PopModifierOutput(dict, ruleName) == <<>>

isVowel(c) == c \in {"a", "e", "i", "o", "u"}

\* the modifier "s" of getBaseEngModifiers, on a non-empty text
PluralS(text) ==
  IF text[Len(text)] \in {"s", "h", "x"} THEN text \o <<"e", "s">>
  ELSE IF text[Len(text)] = "y"
  THEN IF Len(text) >= 2 /\ isVowel(text[Len(text) - 1])
       THEN text \o <<"s">>
       ELSE Sub(text, 1, Len(text) - 1) \o <<"i", "e", "s">>
  ELSE text \o <<"s">>

\* the one-parameter modifier of the test case "Custom modifiers"
AppendParam(text, param) == text \o param

\* Grammar::modifierFunctions after addModifiers(getBaseEngModifiers()),
\* addModifiers(getBaseExtendedModifiers()) and addModifier of the test's
\* one-parameter modifier.  kind: which of isStringModifier, isTreeModifier,
\* isTreeNodeModifier holds; nparams: sizeof...(Ts) of the ModifierFn.
modifierFunctions ==
  (<<"s">> :> [kind |-> "string", nparams |-> 0, fn |-> "s"])
  @@ (<<"a", "p">> :> [kind |-> "string", nparams |-> 1, fn |-> "append"])
  @@ (<<"p", "o", "p", "!", "!">> :> [kind |-> "tree", nparams |-> 1, fn |-> "pop"])

\* CallVector::callVec throws unless the parameter count is the declared one
WrongParameters(nparams, params) == nparams # Len(params)

\* the name of a modifier token and its parameters (TreeNode::flatten)
ModName(mod) ==
  IF containsParametricModifier(mod) THEN Sub(mod, 1, ParenPos(mod) - 1) ELSE mod

\* the parameters as they would be if the empty one were kept
ClearEmpty_Keep(ps) == ps

\* "()" gives no parameter, not one empty parameter
ClearEmpty(ps) == IF Len(ps) = 1 /\ ps[1] = <<>> THEN <<>> ELSE ps

ModParams(mod) ==
  IF containsParametricModifier(mod)
  THEN ClearEmpty(SplitCommas(Sub(mod, ParenPos(mod) + 1, Len(mod) - 1)))
  ELSE <<>>

\* regex_replace(text, getRuleRegex(), "$1"): every rule replaced by its name
RECURSIVE RuleNameOf(_, _)
RuleNameOf(text, i) ==
  IF RuleSearch(text, i) = 0 THEN Sub(text, i, Len(text))
  ELSE Sub(text, i, RuleSearch(text, i) - 1)
       \o Sub(text, GroupsEnd(text, RuleSearch(text, i) + 1),
              SkipWhile(text, GroupsEnd(text, RuleSearch(text, i) + 1), Alnum) - 1)
       \o RuleNameOf(text, RuleMatchEnd(text, RuleSearch(text, i)) + 1)

\* the function f called on the text out with the parameters params, which
\* for a tree modifier start with the rule name
CallFunction(n, dict, out, name, f, params) ==
  IF WrongParameters(f.nparams, params)
  THEN [out |-> out, dict |-> dict, err |-> TRUE,
        ev |-> <<Event("invoke", n, name, JNull, FALSE)>>]
  ELSE IF f.fn = "s"
  THEN [out |-> PluralS(out), dict |-> dict, err |-> FALSE,
        ev |-> <<Event("invoke", n, name, JNull, TRUE)>>]
  ELSE IF f.fn = "append"
  THEN [out |-> AppendParam(out, params[1]), dict |-> dict, err |-> FALSE,
        ev |-> <<Event("invoke", n, name, JNull, TRUE)>>]
  ELSE [out |-> PopModifierOutput(dict, params[1]),
        dict |-> PopModifier(dict, params[1]),
        err |-> FALSE,
        ev |-> <<Event("invoke", n, name, JNull, TRUE)>>
               \o (IF params[1] \in DOMAIN dict /\ dict[params[1]] # <<>>
                   THEN <<Event("pop", n, params[1], JNull, TRUE)>> ELSE <<>>)]

\* One registered modifier called on node n (IModifierFn::callVec): the new
\* output and dictionary; err when WrongParametersException is thrown.
CallModifier(ns, n, dict, out, mod) ==
  CallFunction(n, dict, out, ModName(mod), modifierFunctions[ModName(mod)],
               IF modifierFunctions[ModName(mod)].kind = "string"
               THEN ModParams(mod)
               ELSE <<RuleNameOf(ns[n].input, 1)>> \o ModParams(mod))

\* the loop as it would be if it took the modifiers from the last to the first
RECURSIVE ApplyModifiers_Backward(_, _, _, _, _, _)
ApplyModifiers_Backward(ns, n, dict, out, i, ev) ==
  IF i > Len(ns[n].modifiers)
  THEN [out |-> out, dict |-> dict, err |-> FALSE, ctx |-> <<>>, ev |-> ev]
  ELSE IF ModName(ns[n].modifiers[Len(ns[n].modifiers) + 1 - i]) \notin DOMAIN modifierFunctions
  THEN ApplyModifiers_Backward(ns, n, dict, out, i + 1, ev)
  ELSE LET r == CallModifier(ns, n, dict, out, ns[n].modifiers[Len(ns[n].modifiers) + 1 - i])
       IN IF r.err
          THEN [out |-> <<>>, dict |-> r.dict, err |-> TRUE,
                ctx |-> <<"calling modifier">>, ev |-> ev \o r.ev]
          ELSE ApplyModifiers_Backward(ns, n, r.dict, r.out, i + 1, ev \o r.ev)

\* The loop of TreeNode::flatten over the modifiers of node n, from the i-th
\* on.  A WrongParametersException is caught and thrown again with its
\* context (ctx: one entry per level that caught it).
RECURSIVE ApplyModifiers(_, _, _, _, _, _)
RECURSIVE Modified(_, _, _, _, _)
RECURSIVE Skipped(_, _, _, _, _, _)
ApplyModifiers(ns, n, dict, out, i, ev) ==
  IF i > Len(ns[n].modifiers)
  THEN [out |-> out, dict |-> dict, err |-> FALSE, ctx |-> <<>>, ev |-> ev]
  ELSE IF ModName(ns[n].modifiers[i]) \notin DOMAIN modifierFunctions
  THEN Skipped(ns, n, dict, out, i, ev)
  ELSE Modified(ns, n, i, ev, CallModifier(ns, n, dict, out, ns[n].modifiers[i]))

\* the loop as it would be if it ended at a modifier that is not registered
Skipped_Stop(ns, n, dict, out, i, ev) ==
  [out |-> out, dict |-> dict, err |-> FALSE, ctx |-> <<>>, ev |-> ev]

\* the i-th modifier is not registered: the loop goes on with the next
Skipped(ns, n, dict, out, i, ev) == ApplyModifiers(ns, n, dict, out, i + 1, ev)

\* the loop goes on after the call r of the i-th modifier
Modified(ns, n, i, ev, r) ==
  IF r.err
  THEN [out |-> <<>>, dict |-> r.dict, err |-> TRUE,
        ctx |-> <<"calling modifier">>, ev |-> ev \o r.ev]
  ELSE ApplyModifiers(ns, n, r.dict, r.out, i + 1, ev \o r.ev)

(***************************************************************************)
(* TreeNode::flatten                                                       *)
(***************************************************************************)

\* TreeNode::flatten(modFuns, tree, ignoreHidden, ignoreModifiers) on node n,
\* with the tree's dictionary dict, which tree modifiers change: the text
\* (out), the dictionary afterwards, and whether WrongParametersException was
\* thrown (err).
RECURSIVE flatten(_, _, _, _, _)
RECURSIVE flattenChildren(_, _, _, _, _, _, _)
RECURSIVE ChildFlattened(_, _, _, _, _, _, _)

\* the step as it would be without the test for an empty text
ModifyBase_Always(ns, n, base) ==
  IF base.err THEN base
  ELSE ApplyModifiers(ns, n, base.dict, base.out, 1, base.ev)

\* the modifiers of node n applied to its text without them, unless it is empty
ModifyBase(ns, n, base) ==
  IF base.err \/ base.out = <<>> THEN base
  ELSE ApplyModifiers(ns, n, base.dict, base.out, 1, base.ev)

flatten(ns, dict, n, ignoreHidden, ignoreModifiers) ==
  IF ~(ns[n].modifiers = <<>> \/ ignoreModifiers)
  THEN ModifyBase(ns, n, flatten(ns, dict, n, ignoreHidden, TRUE))
  ELSE IF ~hasChildren(ns, n)
  THEN [out |-> IF ignoreHidden /\ ns[n].isNodeHidden_ THEN <<>> ELSE ns[n].input,
        dict |-> dict, err |-> FALSE, ctx |-> <<>>, ev |-> <<>>]
  ELSE flattenChildren(ns, dict, n, 1, ignoreHidden, <<>>, <<>>)

\* the loop as it would be if it handed ignoreModifiers = true to the children
RECURSIVE flattenChildren_Bare(_, _, _, _, _, _, _)
flattenChildren_Bare(ns, dict, n, i, ignoreHidden, ret, ev) ==
  IF i > Len(ns[n].children)
  THEN [out |-> ret, dict |-> dict, err |-> FALSE, ctx |-> <<>>, ev |-> ev]
  ELSE LET r == flatten(ns, dict, ns[n].children[i], ignoreHidden, TRUE)
       IN IF r.err
          THEN [out |-> <<>>, dict |-> r.dict, err |-> TRUE,
                ctx |-> Append(r.ctx, "flattening"), ev |-> ev \o r.ev]
          ELSE flattenChildren_Bare(ns, r.dict, n, i + 1, ignoreHidden, ret \o r.out,
                                    ev \o r.ev)

\* the loop over the children of node n, from the i-th on; ret is the text so far
flattenChildren(ns, dict, n, i, ignoreHidden, ret, ev) ==
  IF i > Len(ns[n].children)
  THEN [out |-> ret, dict |-> dict, err |-> FALSE, ctx |-> <<>>, ev |-> ev]
  ELSE ChildFlattened(ns, n, i, ignoreHidden, ret, ev,
                      flatten(ns, dict, ns[n].children[i], ignoreHidden, FALSE))

\* the loop as it would be if it caught the exception and went on
ChildFlattened_Swallow(ns, n, i, ignoreHidden, ret, ev, r) ==
  flattenChildren(ns, r.dict, n, i + 1, ignoreHidden, ret \o r.out, ev \o r.ev)

\* the loop goes on after the i-th child's flatten r; an exception is caught
\* and thrown again with this node's context
ChildFlattened(ns, n, i, ignoreHidden, ret, ev, r) ==
  IF r.err
  THEN [out |-> <<>>, dict |-> r.dict, err |-> TRUE,
        ctx |-> Append(r.ctx, "flattening"), ev |-> ev \o r.ev]
  ELSE flattenChildren(ns, r.dict, n, i + 1, ignoreHidden, ret \o r.out, ev \o r.ev)

(***************************************************************************)
(* Object handlers                                                         *)
(***************************************************************************)

\* Grammar::objectHandlers after addObjHandlers(getBaseObjectHandlers()) and
\* addObjHandler of a handler that returns a number
objectHandlers ==
  (<<"b", "i", "n", "o", "m", "i", "a", "l", "-", "d", "i", "s", "t", "r", "i", "b", "u", "t", "i", "o", "n">>
     :> "binomial")
  @@ (<<"n", "u", "m">> :> "number")

\* IObjHandler::handleObj: the binomial-distribution handler returns the
\* element of "values" the distribution selects (index d); the other handler
\* returns a number
handleObj(fn, obj, d) == IF fn = "binomial" THEN JStr(obj.a[d + 1]) ELSE JNum

(***************************************************************************)
(* TreeNode::expandNode                                                    *)
(***************************************************************************)

\* the push as it would be if the new value took the place of the stack
Push_Replace(dict, key, val) ==
  [k \in DOMAIN dict \cup {key} |-> IF k = key THEN <<val>> ELSE dict[k]]

\* std::stack::push on runtimeDictionary[key] (operator[] creates the stack)
Push(dict, key, val) ==
  IF key \in DOMAIN dict THEN [dict EXCEPT ![key] = Append(@, val)]
  ELSE [k \in DOMAIN dict \cup {key} |-> IF k = key THEN <<val>> ELSE dict[k]]

\* What jsonGrammar[ruleName] can do when the grammar has no rule ruleName.
\* jsonGrammar is a const nlohmann::json, and operator[] const requires the
\* key to be present: without it the behaviour is undefined.  A build with
\* assertions stops at the failed assertion; without them the reference read
\* is that of the map's end(), which may hold null (what line 1012 expects)
\* or any other value, here one that is neither null, string, array nor object.
MissingKeyOutcomes == {JNull, JNum, JAbort}

\* jsonGrammar[ruleName]: the rule; ub is the outcome when there is none
GrammarRule(grammar, ruleName, ub) ==
  IF ruleName \in DOMAIN grammar THEN grammar[ruleName] ELSE ub

\* the placeholder of a rule that is defined nowhere
Placeholder(ruleName) == <<"{", "{">> \o ruleName \o <<"}", "}">>

\* the top of the stack of ruleName in the runtime dictionary, null without one
RuntimeRule(dict, ruleName) ==
  IF ruleName \in DOMAIN dict THEN dict[ruleName][Len(dict[ruleName])] ELSE JNull

\* a null value replaced by the value other
OrElse(val, other) == IF val.t = "null" THEN other ELSE val

\* the lookup as it would be if the grammar's rule came first
RuleContents_GrammarFirst(grammar, dict, ruleName, ub) ==
  OrElse(OrElse(GrammarRule(grammar, ruleName, ub), RuntimeRule(dict, ruleName)),
         JStr(Placeholder(ruleName)))

\* the contents an only-rule node resolves its rule name to: the top of the
\* runtime dictionary's stack, else the grammar's rule, else the placeholder
RuleContents(grammar, dict, ruleName, ub) ==
  OrElse(OrElse(RuntimeRule(dict, ruleName), GrammarRule(grammar, ruleName, ub)),
         JStr(Placeholder(ruleName)))

\* the number of values the distribution chooses among for the contents c
\* (0: it is not consulted)
ContentsRange(c) ==
  IF c.t = "array" THEN Len(c.a)
  ELSE IF c.t = "object" /\ c.h # <<>> /\ c.h[1] \in DOMAIN objectHandlers
          /\ objectHandlers[c.h[1]] = "binomial" THEN Len(c.a)
  ELSE 0

\* the same for the expansion of the text
DrawRange(grammar, dict, text) ==
  IF containsOnlyRule(text)
  THEN ContentsRange(RuleContents(grammar, dict, OnlyRuleName(text), JNull))
  ELSE 0

\* the output as it would be if a string were taken as its json text, in quotes
RuleOutput_Dumped(c, d) ==
  IF c.t = "string" THEN <<"\"">> \o c.s \o <<"\"">>
  ELSE IF c.t = "array" THEN c.a[d + 1]
  ELSE IF c.t = "object" THEN handleObj(objectHandlers[c.h[1]], c, d).s
  ELSE <<>>

\* the text the contents c give with the value d of the distribution
RuleOutput(c, d) ==
  IF c.t = "string" THEN c.s
  ELSE IF c.t = "array" THEN c.a[d + 1]
  ELSE IF c.t = "object" THEN handleObj(objectHandlers[c.h[1]], c, d).s
  ELSE <<>>

\* the check as it would be without the test of the handler's result
BadHandler_Lenient(c, d) ==
  c.t = "object" /\ (c.h = <<>> \/ c.h[1] \notin DOMAIN objectHandlers)

\* BadHandlerException: an object without "handler", with an unregistered
\* handler, or whose handler does not return a string
BadHandler(c, d) ==
  c.t = "object"
  /\ (c.h = <<>> \/ c.h[1] \notin DOMAIN objectHandlers
      \/ handleObj(objectHandlers[c.h[1]], c, d).t # "string")

\* What UniformIntDistributionT dist(0, ruleContents.size() - 1) and
\* ruleContents[dist(rng)] can do on an empty array.  size() - 1 wraps, the
\* distribution is constructed outside its precondition (undefined
\* behaviour): a build with assertions stops there (NoDraw); otherwise the
\* distribution returns some index, all of which are outside the array, the
\* non-const operator[] fills the array with nulls up to it, and the
\* conversion of the null element to std::string throws type_error.
NoDraw == 0 - 1

EmptyArrayDraws == {NoDraw, 0}

\* the contents are an array without elements
EmptyArray(c) == c.t = "array" /\ c.a = <<>>

\* the only-rule branch, the rule ruleName having the contents c: err is "",
\* the exception thrown, or "abort" when the process stopped
ResolveRule(ns, dict, n, d, ruleName, mods, c) ==
  IF c.t = "abort" \/ (EmptyArray(c) /\ d = NoDraw)
  THEN [ns |-> ns, dict |-> dict, err |-> "abort", ev |-> <<>>]
  ELSE IF EmptyArray(c)
  THEN [ns |-> ns, dict |-> dict, err |-> "type_error",
        ev |-> <<Event("draw", n, ruleName, JNull, FALSE)>>]
  ELSE IF BadHandler(c, d)
  THEN [ns |-> ns, dict |-> dict, err |-> "BadHandlerException", ev |-> <<>>]
  ELSE [ns |-> addChild([ns EXCEPT ![n].modifiers = @ \o mods], n, RuleOutput(c, d)),
        dict |-> dict, err |-> "",
        ev |-> (IF ContentsRange(c) > 0
                THEN <<Event("draw", n, ruleName, JNull, TRUE)>> ELSE <<>>)
               \o <<Event("resolve", n, ruleName, JStr(RuleOutput(c, d)), TRUE)>>]

ExpandOnlyRule(grammar, ns, dict, n, d, ub) ==
  ResolveRule(ns, dict, n, d, OnlyRuleName(ns[n].input),
              ModTokens(OnlyRuleMods(ns[n].input), 1),
              RuleContents(grammar, dict, OnlyRuleName(ns[n].input), ub))

\* the index of the last child of node n
LastChild(ns, n) == ns[n].children[Len(ns[n].children)]

\* the key of the child c set to key (TreeNode::setKeyName)
SetKey(ns, c, key) == [ns EXCEPT ![c].keyName = <<key>>]

\* the keyless rule action [#rule#]: the child's key is the empty text
ExpandKeylessRuleAction(ns, n, added) ==
  SetKey(added, getLastExpandableChild(added, n), <<>>)

\* the action [key:#rule#]: the node is hidden, the child has the key
ExpandKeyWithRuleAction(ns, n, added, key) == SetKey(added, LastChild(added, n), key)

\* the action [key:text] as it would be if the node were not marked hidden
ExpandKeyWithTextAction_Shown(ns, dict, n, key, arr) ==
  [ns |-> ns, dict |-> Push(dict, key, arr), err |-> "",
   ev |-> <<Event("bind", n, key, arr, TRUE)>>]

\* the action [key:text]: the node is hidden and the key bound to the array
\* of the comma-separated tokens of the text
ExpandKeyWithTextAction(ns, dict, n, key, arr) ==
  [ns |-> [ns EXCEPT ![n].isNodeHidden_ = TRUE],
   dict |-> Push(dict, key, arr),
   err |-> "",
   ev |-> <<Event("bind", n, key, arr, TRUE)>>]

\* expandNode leaves the dictionary alone and throws nothing
Children(ns, dict) == [ns |-> ns, dict |-> dict, err |-> "", ev |-> <<>>]

\* the rule with leading actions as it would be if the rule's child came first
ExpandRuleWithActions_Swapped(ns, n) ==
  addChild(addChild(ns, n, <<"#">> \o RuleAfterActions(ns[n].input) \o <<"#">>), n,
           RuleActions(ns[n].input))

\* the rule with leading actions #[actions]rule#: a child for the actions,
\* then a child for the rule
ExpandRuleWithActions(ns, n) ==
  addChild(addChild(ns, n, RuleActions(ns[n].input)), n,
           <<"#">> \o RuleAfterActions(ns[n].input) \o <<"#">>)

\* TreeNode::expandNode on node n with the value d the distribution returns
\* if consulted and the outcome ub of a lookup the grammar has no rule for:
\* the nodes and the dictionary afterwards
expandNode(grammar, ns, dict, n, d, ub) ==
  IF ns[n].isNodeComplete_ THEN Children(ns, dict)
  ELSE IF containsOnlyRule(ns[n].input) THEN ExpandOnlyRule(grammar, ns, dict, n, d, ub)
  ELSE IF containsOnlyRuleWithActions(ns[n].input)
  THEN Children(ExpandRuleWithActions(ns, n), dict)
  ELSE IF containsOnlyKeylessRuleAction(ns[n].input)
  THEN Children(ExpandKeylessRuleAction(ns, n, addChild(ns, n, KeylessRule(ns[n].input))), dict)
  ELSE IF containsOnlyKeyWithRuleAction(ns[n].input)
  THEN Children(ExpandKeyWithRuleAction(ns, n,
                  addChild([ns EXCEPT ![n].isNodeHidden_ = TRUE], n, ActionValue(ns[n].input)),
                  ActionKey(ns[n].input)), dict)
  ELSE IF containsOnlyKeyWithTextAction(ns[n].input)
  THEN ExpandKeyWithTextAction(ns, dict, n, ActionKey(ns[n].input),
                               JArr(SplitCommas(ActionValue(ns[n].input))))
  ELSE IF containsOnlyActions(ns[n].input)
  THEN Children(addChildren(ns, n, NonEmpty(ActionTokens(ns[n].input, 1))), dict)
  ELSE Children(addChildren(ns, n, NonEmpty(RuleTokens(ns[n].input, 1))), dict)

(***************************************************************************)
(* Tree                                                                    *)
(***************************************************************************)

\* Tree::Tree: the runtime dictionary starts with one entry per grammar rule
TreeDictionary(grammar) == [k \in DOMAIN grammar |-> <<grammar[k]>>]

\* the binding as it would be if the text were pushed as a list of one
\* element, as the key-with-text branch pushes its value
BindKey_List(n, key, r) ==
  IF r.err
  THEN [dict |-> r.dict, err |-> TRUE, ctx |-> Append(r.ctx, "setting key"), ev |-> r.ev]
  ELSE IF key # <<>>
  THEN [dict |-> Push(r.dict, key, JArr(<<r.out>>)), err |-> FALSE, ctx |-> <<>>,
        ev |-> Append(r.ev, Event("bind", n, key, JArr(<<r.out>>), TRUE))]
  ELSE [dict |-> r.dict, err |-> FALSE, ctx |-> <<>>, ev |-> r.ev]

\* the key of node n bound to the text r.out its flatten gave, unless the
\* key is empty; an exception is thrown again with the key as context
BindKey(n, key, r) ==
  IF r.err
  THEN [dict |-> r.dict, err |-> TRUE, ctx |-> Append(r.ctx, "setting key"), ev |-> r.ev]
  ELSE IF key # <<>>
  THEN [dict |-> Push(r.dict, key, JStr(r.out)), err |-> FALSE, ctx |-> <<>>,
        ev |-> Append(r.ev, Event("bind", n, key, JStr(r.out), TRUE))]
  ELSE [dict |-> r.dict, err |-> FALSE, ctx |-> <<>>, ev |-> r.ev]

\* the flatten of Tree::handleKey as it would be if it left hidden nodes out
KeyValue_Suppressed(ns, dict, n) == flatten(ns, dict, n, TRUE, FALSE)

\* the flatten of Tree::handleKey: hidden nodes included, modifiers applied
KeyValue(ns, dict, n) == flatten(ns, dict, n, FALSE, FALSE)

\* Tree::handleKey on node n
handleKey(ns, dict, n) ==
  IF ns[n].keyName = <<>>
  THEN [dict |-> dict, err |-> FALSE, ctx |-> <<>>, ev |-> <<>>]
  ELSE BindKey(n, ns[n].keyName[1], KeyValue(ns, dict, n))

\* the loop as it would be if it popped every node of the stack, whether its
\* last expandable child is done or not
RECURSIVE Unwind_All(_, _, _, _, _)
Unwind_All(ns, dict, stack, poppedNode, ev) ==
  IF stack = <<>>
  THEN [dict |-> dict, stack |-> stack, err |-> FALSE, ctx |-> <<>>, ev |-> ev]
  ELSE LET newTop == stack[Len(stack)]
           k == handleKey(ns, dict, newTop)
           done == Append(ev, Event("done", newTop, <<>>, JNull, TRUE))
       IN IF k.err
          THEN [dict |-> k.dict, stack |-> Sub(stack, 1, Len(stack) - 1), err |-> TRUE,
                ctx |-> k.ctx, ev |-> done \o k.ev]
          ELSE Unwind_All(ns, k.dict, Sub(stack, 1, Len(stack) - 1), newTop, done \o k.ev)

\* the loop as it would be if it popped no ancestor
Unwind_None(ns, dict, stack, poppedNode, ev) ==
  [dict |-> dict, stack |-> stack, err |-> FALSE, ctx |-> <<>>, ev |-> ev]

\* The while loop of Tree::expand: while the last expandable child of the
\* stack's top is the node just popped, the top is popped and its key handled.
RECURSIVE Unwind(_, _, _, _, _)
RECURSIVE Unwound(_, _, _, _, _)
Unwind(ns, dict, stack, poppedNode, ev) ==
  IF stack = <<>> \/ getLastExpandableChild(ns, stack[Len(stack)]) # poppedNode
  THEN [dict |-> dict, stack |-> stack, err |-> FALSE, ctx |-> <<>>, ev |-> ev]
  ELSE Unwound(ns, Sub(stack, 1, Len(stack) - 1), stack[Len(stack)],
               Append(ev, Event("done", stack[Len(stack)], <<>>, JNull, TRUE)),
               handleKey(ns, dict, stack[Len(stack)]))

\* the loop goes on after handleKey (k) on the popped node newTop
Unwound(ns, rest, newTop, ev, k) ==
  IF k.err
  THEN [dict |-> k.dict, stack |-> rest, err |-> TRUE, ctx |-> k.ctx, ev |-> ev \o k.ev]
  ELSE Unwind(ns, k.dict, rest, newTop, ev \o k.ev)

\* the incomplete ones among the nodes cs, last first
RECURSIVE ReverseIncomplete(_, _)
ReverseIncomplete(ns, cs) ==
  IF cs = <<>> THEN <<>>
  ELSE ReverseIncomplete(ns, Tail(cs))
       \o (IF ns[Head(cs)].isNodeComplete_ THEN <<>> ELSE <<Head(cs)>>)

\* the incomplete ones among the nodes cs, first first
RECURSIVE ForwardIncomplete(_, _)
ForwardIncomplete(ns, cs) ==
  IF cs = <<>> THEN <<>>
  ELSE (IF ns[Head(cs)].isNodeComplete_ THEN <<>> ELSE <<Head(cs)>>)
       \o ForwardIncomplete(ns, Tail(cs))

\* the push of the children as it would be if only the last incomplete child
\* were pushed
PushChildren_Last(ns, st, n) ==
  IF getLastExpandableChild(ns, n) = 0 THEN st
  ELSE Append(st, getLastExpandableChild(ns, n))

\* the push of the children as it would be without the reversal
PushChildren_Forward(ns, st, n) == st \o ForwardIncomplete(ns, ns[n].children)

\* the incomplete children of node n pushed on the stack st in reverse order,
\* so that the leftmost is on top
PushChildren(ns, st, n) == st \o ReverseIncomplete(ns, ns[n].children)

\* what Tree::expand leaves and returns after the loop u
Returned(ns, u) ==
  [ns |-> ns, dict |-> u.dict, stack |-> u.stack, ret |-> u.stack # <<>>,
   err |-> IF u.err THEN "WrongParametersException" ELSE "",
   ctx |-> u.ctx, ev |-> u.ev]

\* the node next has no child awaiting expansion: it is popped (rest is the
\* stack without it), its key handled (k), then its finished ancestors
PopFinished(ns, rest, next, ev, k) ==
  IF k.err
  THEN [ns |-> ns, dict |-> k.dict, stack |-> rest, ret |-> FALSE,
        err |-> "WrongParametersException", ctx |-> k.ctx, ev |-> ev \o k.ev]
  ELSE Returned(ns, Unwind(ns, k.dict, rest, next, ev \o k.ev))

\* Tree::expand after expandNode (x) on the stack's top next
Expanded(st, next, x) ==
  IF x.err # ""
  THEN [ns |-> x.ns, dict |-> x.dict, stack |-> st, ret |-> FALSE, err |-> x.err,
        ctx |-> <<>>, ev |-> <<Event("expand", next, <<>>, JNull, TRUE)>> \o x.ev]
  ELSE IF areChildrenComplete(x.ns, next)
  THEN PopFinished(x.ns, Sub(st, 1, Len(st) - 1), next,
                   <<Event("expand", next, <<>>, JNull, TRUE)>> \o x.ev
                     \o <<Event("done", next, <<>>, JNull, TRUE)>>,
                   handleKey(x.ns, x.dict, next))
  ELSE [ns |-> x.ns, dict |-> x.dict,
        stack |-> PushChildren(x.ns, st, next),
        ret |-> TRUE, err |-> "", ctx |-> <<>>,
        ev |-> <<Event("expand", next, <<>>, JNull, TRUE)>> \o x.ev]

\* Tree::expand with the stack st, the root pushed if the stack was empty
ExpandTop(grammar, ns, dict, st, d, ub) ==
  Expanded(st, st[Len(st)], expandNode(grammar, ns, dict, st[Len(st)], d, ub))

\* Tree::expand with the value d the distribution returns if consulted and
\* the outcome ub of a lookup the grammar has no rule for: the tree
\* afterwards, the value returned (ret), the exception thrown (err)
expand(grammar, ns, dict, stack, d, ub) ==
  IF stack = <<>> /\ (ns[1].isNodeComplete_ \/ hasChildren(ns, 1))
  THEN [ns |-> ns, dict |-> dict, stack |-> stack, ret |-> FALSE, err |-> "",
        ctx |-> <<>>, ev |-> <<>>]
  ELSE ExpandTop(grammar, ns, dict, IF stack = <<>> THEN <<1>> ELSE stack, d, ub)

(***************************************************************************)
(* The grammar and the start texts                                         *)
(***************************************************************************)

\* The grammar, in the manner of the grammars of src/main.cpp:
\*   r: "out"              o: "#r#"            g: "is #k#"       a: "gull"
\*   p: "[#k.pop!!#]"      q: "[#j.pop!!#]"    j: "sea"          f: "[k:w][m:d]"
\*   c: ["x", "y"]         d: ["#c#", "#a#"]   e: ""             w: "#r.ap#"
\*   h: {"handler": "binomial-distribution", "values": ["u", "v"]}
\*   n: {"handler": "num", "values": ["u"]}          v: "[m:d]#a#"
\*   b: {"values": ["u"]}                            z: []
\*   i: {"handler": "zz", "values": ["u"]}          l: "#[m:#a#]r#"
\* It has no rule k, m, u or x; "num" is a registered handler that returns
\* a number, no handler "zz" is registered.
Grammar ==
  (<<"r">> :> JStr(<<"o", "u", "t">>))
  @@ (<<"o">> :> JStr(<<"#", "r", "#">>))
  @@ (<<"g">> :> JStr(<<"i", "s", " ", "#", "k", "#">>))
  @@ (<<"a">> :> JStr(<<"g", "u", "l", "l">>))
  @@ (<<"p">> :> JStr(<<"[", "#", "k", ".", "p", "o", "p", "!", "!", "#", "]">>))
  @@ (<<"q">> :> JStr(<<"[", "#", "j", ".", "p", "o", "p", "!", "!", "#", "]">>))
  @@ (<<"j">> :> JStr(<<"s", "e", "a">>))
  @@ (<<"f">> :> JStr(<<"[", "k", ":", "w", "]", "[", "m", ":", "d", "]">>))
  @@ (<<"c">> :> JArr(<< <<"x">>, <<"y">> >>))
  @@ (<<"d">> :> JArr(<< <<"#", "c", "#">>, <<"#", "a", "#">> >>))
  @@ (<<"e">> :> JStr(<<>>))
  @@ (<<"w">> :> JStr(<<"#", "r", ".", "a", "p", "#">>))
  @@ (<<"h">> :> JObj(<< <<"b", "i", "n", "o", "m", "i", "a", "l", "-", "d", "i", "s", "t", "r", "i", "b", "u", "t", "i", "o", "n">> >>, << <<"u">>, <<"v">> >>))
  @@ (<<"n">> :> JObj(<< <<"n", "u", "m">> >>, << <<"u">> >>))
  @@ (<<"v">> :> JStr(<<"[", "m", ":", "d", "]", "#", "a", "#">>))
  @@ (<<"b">> :> JObj(<<>>, << <<"u">> >>))
  @@ (<<"i">> :> JObj(<< <<"z", "z">> >>, << <<"u">> >>))
  @@ (<<"z">> :> JArr(<<>>))
  @@ (<<"l">> :> JStr(<<"#", "[", "m", ":", "#", "a", "#", "]", "r", "#">>))

\* "hi"
TextPlain ==
  <<"h", "i">>

\* "#o#"
TextBasic ==
  <<"#", "o", "#">>

\* "#[k:t]g#"
TextKeyText ==
  <<"#", "[", "k", ":", "t", "]", "g", "#">>

\* "#[k:#a#]g#"
TextKeyRule ==
  <<"#", "[", "k", ":", "#", "a", "#", "]", "g", "#">>

\* "#[k:#o.s#]g#"
TextKeyDeep ==
  <<"#", "[", "k", ":", "#", "o", ".", "s", "#", "]", "g", "#">>

\* "#[k:#v#]g#"
TextKeyHidden ==
  <<"#", "[", "k", ":", "#", "v", "#", "]", "g", "#">>

\* "[k:a][k:b]#k##p##k##p##k#"
TextScope ==
  <<"[", "k", ":", "a", "]", "[", "k", ":", "b", "]", "#", "k", "#", "#", "p", "#", "#", "k", "#", "#", "p", "#", "#", "k", "#">>

\* "[j:a][j:b]#j##q##j##q##j#"
TextScopeStatic ==
  <<"[", "j", ":", "a", "]", "[", "j", ":", "b", "]", "#", "j", "#", "#", "q", "#", "#", "j", "#", "#", "q", "#", "#", "j", "#">>

\* "[x]"
TextBadAction ==
  <<"[", "x", "]">>

\* "#u#"
TextUndefined ==
  <<"#", "u", "#">>

\* "#r.ap#"
TextBadArity ==
  <<"#", "r", ".", "a", "p", "#">>

\* "#[k:#r.ap#]g#"
TextBadArityKey ==
  <<"#", "[", "k", ":", "#", "r", ".", "a", "p", "#", "]", "g", "#">>

\* "a #w#"
TextBadArityDeep ==
  <<"a", " ", "#", "w", "#">>

\* "#c#"
TextChoice ==
  <<"#", "c", "#">>

\* "#d#"
TextChoiceDeep ==
  <<"#", "d", "#">>

\* "#e.ap#"
TextEmptyMod ==
  <<"#", "e", ".", "a", "p", "#">>

\* "[k:t]"
TextActionRoot ==
  <<"[", "k", ":", "t", "]">>

\* "#a.s#"
TextPlural ==
  <<"#", "a", ".", "s", "#">>

\* "#r.ap(x)#"
TextParam ==
  <<"#", "r", ".", "a", "p", "(", "x", ")", "#">>

\* "#r.zz.s#"
TextUnknownMod ==
  <<"#", "r", ".", "z", "z", ".", "s", "#">>

\* "#[#f#]g# #m#"
TextFun ==
  <<"#", "[", "#", "f", "#", "]", "g", "#", " ", "#", "m", "#">>

\* "#h#"
TextHandler ==
  <<"#", "h", "#">>

\* "x#[k:#o#]g##[k:#a#]g#."
TextOrder ==
  <<"x", "#", "[", "k", ":", "#", "o", "#", "]", "g", "#", "#", "[", "k", ":", "#", "a", "#", "]", "g", "#", ".">>

\* "[k:a,b]#k#"
TextList ==
  <<"[", "k", ":", "a", ",", "b", "]", "#", "k", "#">>

\* "#b.s#"
TextNoHandler ==
  <<"#", "b", ".", "s", "#">>

\* "#i.s#"
TextUnregistered ==
  <<"#", "i", ".", "s", "#">>

\* "#n.s#"
TextNonString ==
  <<"#", "n", ".", "s", "#">>

\* "[r:t]#o#"
TextShadow ==
  <<"[", "r", ":", "t", "]", "#", "o", "#">>

\* "#q##j#"
TextPopStatic ==
  <<"#", "q", "#", "#", "j", "#">>

\* "#z#"
TextEmptyArray ==
  <<"#", "z", "#">>

\* "#a.s.ap(x)#"
TextChain ==
  <<"#", "a", ".", "s", ".", "a", "p", "(", "x", ")", "#">>

\* "#[#a.s#]r#"
TextKeyless ==
  <<"#", "[", "#", "a", ".", "s", "#", "]", "r", "#">>

\* "#e.pop!!##e#"
TextEmptyPop ==
  <<"#", "e", ".", "p", "o", "p", "!", "!", "#", "#", "e", "#">>

\* "#a.s()#"
TextEmptyParens ==
  <<"#", "a", ".", "s", "(", ")", "#">>

\* "#r.ap()#"
TextParensArity ==
  <<"#", "r", ".", "a", "p", "(", ")", "#">>

\* "[k:]#k#"
TextEmptyValue ==
  <<"[", "k", ":", "]", "#", "k", "#">>

\* "#[k:#e#]p#"
TextPopEmpty ==
  <<"#", "[", "k", ":", "#", "e", "#", "]", "p", "#">>

\* "#[k:#l#]g#"
TextKeyNested ==
  <<"#", "[", "k", ":", "#", "l", "#", "]", "g", "#">>

\* "[k:a][k:b]#k.pop!!##k#"
TextPopFlat ==
  <<"[", "k", ":", "a", "]", "[", "k", ":", "b", "]", "#", "k", ".", "p", "o", "p", "!", "!", "#", "#", "k", "#">>

\* "#o.s#"
TextDeepPlural ==
  <<"#", "o", ".", "s", "#">>

\* "x[r:t]#r#"
TextEmbedded ==
  <<"x", "[", "r", ":", "t", "]", "#", "r", "#">>

\* "[j:a][j:b]#[m:#q#]j#"
TextPopKeyed ==
  <<"[", "j", ":", "a", "]", "[", "j", ":", "b", "]", "#", "[", "m", ":", "#", "q", "#", "]", "j", "#">>

\* "#[k:#c#]g##k#"
TextKeyChoice ==
  <<"#", "[", "k", ":", "#", "c", "#", "]", "g", "#", "#", "k", "#">>

StartTexts ==
  {TextPlain,
   TextBasic,
   TextKeyText,
   TextKeyRule,
   TextKeyDeep,
   TextKeyHidden,
   TextScope,
   TextScopeStatic,
   TextBadAction,
   TextUndefined,
   TextBadArity,
   TextBadArityKey,
   TextBadArityDeep,
   TextChoice,
   TextChoiceDeep,
   TextEmptyMod,
   TextActionRoot,
   TextPlural,
   TextParam,
   TextUnknownMod,
   TextFun,
   TextHandler,
   TextOrder,
   TextList,
   TextNoHandler,
   TextUnregistered,
   TextNonString,
   TextShadow,
   TextPopStatic,
   TextEmptyArray,
   TextChain,
   TextKeyless,
   TextEmptyPop,
   TextEmptyParens,
   TextParensArity,
   TextEmptyValue,
   TextPopEmpty,
   TextKeyNested,
   TextPopFlat,
   TextDeepPlural,
   TextEmbedded,
   TextPopKeyed,
   TextKeyChoice}

(***************************************************************************)
(* The calls                                                               *)
(***************************************************************************)

\* the most nodes a tree can hold before an allocation fails
MaxNodes == 26

\* the most Tree::flatten calls a caller driving the tree itself makes
MaxFlattens == 2

\* the most Tree::expand calls made after Tree::expand has returned false
MaxExtraCalls == 2

\* the events ev, each with the call it belongs to: the at-th call on this
\* tree, a call of Tree::expand or of Tree::flatten
RECURSIVE Stamp(_, _, _)
Stamp(ev, call, at) ==
  IF ev = <<>> THEN <<>>
  ELSE <<[op |-> Head(ev).op, node |-> Head(ev).node, key |-> Head(ev).key,
          val |-> Head(ev).val, ok |-> Head(ev).ok, call |-> call, at |-> at]>>
       \o Stamp(Tail(ev), call, at)

\* the i-th call on this tree was a call of Tree::expand that returned false
ReturnedFalse(i) ==
  history[i].call = "expand" /\ history[i].err = "" /\ ~history[i].ret

\* the calls of Tree::expand made since it first returned false
ExtraCalls ==
  Cardinality({i \in 1..Len(history) :
                 /\ history[i].call = "expand"
                 /\ \E j \in 1..(i - 1) : ReturnedFalse(j)})

\* getTree as it would be if the trees of a Grammar shared one dictionary:
\* a tree made after the first takes over the dictionary as it is
NewTree_Shared(text, grammar) ==
  [nodes |-> <<TreeNode(text)>>,
   dict |-> IF phase = "expanding" THEN TreeDictionary(grammar) ELSE runtimeDictionary]

\* Grammar::getTree: the nodes and the dictionary of the new tree
NewTree(text, grammar) ==
  [nodes |-> <<TreeNode(text)>>, dict |-> TreeDictionary(grammar)]

Init ==
  /\ jsonGrammar = Grammar
  /\ input \in StartTexts
  /\ mode \in {"flatten", "step"}
  /\ phase = "expanding"
  /\ nodes = NewTree(input, jsonGrammar).nodes
  /\ runtimeDictionary = NewTree(input, jsonGrammar).dict
  /\ expandingNodes = <<>>
  /\ results = <<>>
  /\ history = <<>>
  /\ calls = 0
  /\ run = 1
  /\ tape = <<>>
  /\ replay = <<>>
  /\ firstRun = <<>>

\* the text the next call of Tree::expand expands
NextText ==
  IF expandingNodes = <<>> THEN nodes[1].input
  ELSE nodes[expandingNodes[Len(expandingNodes)]].input

\* the number of values the distribution chooses among in the next call of
\* Tree::expand (0: it is not consulted)
NextRange ==
  IF expandingNodes = <<>> /\ (nodes[1].isNodeComplete_ \/ hasChildren(nodes, 1))
  THEN 0 ELSE DrawRange(jsonGrammar, runtimeDictionary, NextText)

\* the next call of Tree::expand looks up a rule that is neither bound in
\* the runtime dictionary nor a rule of the grammar
NextMissing ==
  /\ ~(expandingNodes = <<>> /\ (nodes[1].isNodeComplete_ \/ hasChildren(nodes, 1)))
  /\ containsOnlyRule(NextText)
  /\ RuntimeRule(runtimeDictionary, OnlyRuleName(NextText)).t = "null"
  /\ OnlyRuleName(NextText) \notin DOMAIN jsonGrammar

\* the next call of Tree::expand resolves a rule to an empty array
NextEmpty ==
  /\ ~(expandingNodes = <<>> /\ (nodes[1].isNodeComplete_ \/ hasChildren(nodes, 1)))
  /\ containsOnlyRule(NextText)
  /\ EmptyArray(RuleContents(jsonGrammar, runtimeDictionary, OnlyRuleName(NextText), JNull))

\* the outcomes of the grammar lookup of the next call of Tree::expand
NextOutcomes == IF NextMissing THEN MissingKeyOutcomes ELSE {JNull}

\* the values the distribution can return: any of the range, or the one
\* fixed in advance
DrawsOf(range) ==
  IF NextEmpty THEN EmptyArrayDraws
  ELSE IF range = 0 THEN {0}
  ELSE IF replay # <<>> /\ Head(replay) < range THEN {Head(replay)}
  ELSE 0..(range - 1)

\* the tree and the record of the calls after the call x of Tree::expand,
\* in which the distribution returned d if consulted
ExpandReturned(x, d, drew) ==
  IF Len(x.ns) > MaxNodes
  THEN /\ phase' = "exhausted"
       /\ calls' = calls + 1
       /\ UNCHANGED <<nodes, runtimeDictionary, expandingNodes, history, tape, replay>>
  ELSE /\ calls' = calls + 1
       /\ nodes' = x.ns
       /\ runtimeDictionary' = x.dict
       /\ expandingNodes' = x.stack
       /\ phase' = IF x.err = "abort" THEN "aborted"
                   ELSE IF x.err # "" THEN "threw"
                   ELSE IF x.ret THEN phase ELSE "expanded"
       /\ history' = Append(history,
                            [call |-> "expand", ret |-> x.ret, err |-> x.err,
                             ctx |-> x.ctx, out |-> <<>>,
                             ev |-> Stamp(x.ev, "expand", Len(history) + 1)])
       /\ tape' = IF drew THEN Append(tape, d) ELSE tape
       /\ replay' = IF drew /\ replay # <<>> THEN Tail(replay) ELSE replay

\* Tree::expand is called next: by the loop of Grammar::getExpandedTree while
\* the calls return true, or by a caller that drives the tree itself
ExpandEnabled ==
  \/ phase = "expanding"
  \/ mode = "step" /\ phase = "expanded" /\ ExtraCalls < MaxExtraCalls

\* One call of Tree::expand
ExpandCall ==
  /\ ExpandEnabled
  /\ \E d \in DrawsOf(NextRange), ub \in NextOutcomes :
       ExpandReturned(expand(jsonGrammar, nodes, runtimeDictionary, expandingNodes, d, ub),
                      d, NextRange > 0)
  /\ UNCHANGED <<jsonGrammar, input, mode, results, run, firstRun>>

\* the tree and the record of the calls after the call r of Tree::flatten
FlattenReturned(r) ==
  /\ runtimeDictionary' = r.dict
  /\ results' = Append(results, [out |-> r.out, err |-> r.err, ctx |-> r.ctx,
                                 full |-> phase = "expanded"])
  /\ history' = Append(history,
                       [call |-> "flatten", ret |-> FALSE,
                        err |-> IF r.err THEN "WrongParametersException" ELSE "",
                        ctx |-> r.ctx, out |-> r.out,
                        ev |-> Stamp(r.ev, "flatten", Len(history) + 1)])

\* One call of Tree::flatten(modFuns): by Grammar::flatten once the tree is
\* expanded, or by a caller that drives the tree itself.
FlattenCall ==
  /\ \/ mode = "flatten" /\ phase = "expanded"
     \/ mode = "step" /\ phase \in {"expanding", "expanded"} /\ Len(results) < MaxFlattens
  /\ FlattenReturned(flatten(nodes, runtimeDictionary, 1, TRUE, FALSE))
  /\ phase' = IF mode = "flatten" THEN "flattened" ELSE phase
  /\ UNCHANGED <<jsonGrammar, input, mode, nodes, expandingNodes, calls, run, tape,
                 replay, firstRun>>

\* A second call of Grammar::flatten with the same start text, the randomness
\* source producing the values it produced for the first
SecondFlatten ==
  /\ mode = "flatten"
  /\ run = 1
  /\ phase \in {"flattened", "threw"}
  /\ firstRun' = <<[phase |-> phase, results |-> results, tape |-> tape,
                    dict |-> runtimeDictionary]>>
  /\ run' = 2
  /\ replay' = tape
  /\ tape' = <<>>
  /\ nodes' = NewTree(input, jsonGrammar).nodes
  /\ runtimeDictionary' = NewTree(input, jsonGrammar).dict
  /\ expandingNodes' = <<>>
  /\ phase' = "expanding"
  /\ results' = <<>>
  /\ history' = <<>>
  /\ calls' = 0
  /\ UNCHANGED <<jsonGrammar, input, mode>>

Next == ExpandCall \/ FlattenCall \/ SecondFlatten

Spec == Init /\ [][Next]_vars

\* a step that makes a call of Tree::expand: the steps of ExpandCall, which
\* is enabled exactly when ExpandEnabled holds
ExpandStep == ExpandEnabled /\ calls' = calls + 1

\* the expansion loop of Grammar::getExpandedTree goes on until it ends: the
\* loop calls Tree::expand again as long as the last call returned true
FairSpec == Spec /\ WF_calls(ExpandStep)

(***************************************************************************)
(* The record of the calls                                                 *)
(***************************************************************************)

\* the events of the first i calls on this tree, in the order they happened
RECURSIVE Log(_)
Log(i) == IF i = 0 THEN <<>> ELSE Log(i - 1) \o history[i].ev

Events == Log(Len(history))

\* the nodes of the subtree of node n
RECURSIVE Subtree(_, _)
Subtree(ns, n) ==
  {n} \cup UNION {Subtree(ns, ns[n].children[i]) : i \in 1..Len(ns[n].children)}

\* the production expandNode applies to the text of an incomplete node
Production(text) ==
  IF containsOnlyRule(text) THEN "only-rule"
  ELSE IF containsOnlyRuleWithActions(text) THEN "rule-with-actions"
  ELSE IF containsOnlyKeylessRuleAction(text) THEN "keyless-rule-action"
  ELSE IF containsOnlyKeyWithRuleAction(text) THEN "key-with-rule-action"
  ELSE IF containsOnlyKeyWithTextAction(text) THEN "key-with-text-action"
  ELSE IF containsOnlyActions(text) THEN "only-actions"
  ELSE "mixed"

\* the positions in ev of the events that bind or pop the key
KeyChanges(ev, key) ==
  {i \in 1..Len(ev) : ev[i].op \in {"bind", "pop"} /\ ev[i].key = key}

\* the operations on the key among ev, in order
RECURSIVE KeyOps(_, _, _)
KeyOps(ev, key, i) ==
  IF i > Len(ev) THEN <<>>
  ELSE (IF i \in KeyChanges(ev, key) THEN <<ev[i].op>> ELSE <<>>) \o KeyOps(ev, key, i + 1)

\* the values bound to the key among ev, in order
RECURSIVE KeyValues(_, _, _)
KeyValues(ev, key, i) ==
  IF i > Len(ev) THEN <<>>
  ELSE (IF ev[i].op = "bind" /\ ev[i].key = key THEN <<ev[i].val>> ELSE <<>>)
       \o KeyValues(ev, key, i + 1)

\* the texts a reference can resolve a bound value to
TextsOf(val) ==
  IF val.t = "array" THEN {val.a[i] : i \in 1..Len(val.a)} ELSE {val.s}

\* the j-th event resolves the key, and the i-th is the last before it to
\* bind or pop the key
ResolvesAfter(ev, key, i, j) ==
  /\ i < j
  /\ ev[j].op = "resolve"
  /\ ev[j].key = key
  /\ i \in KeyChanges(ev, key)
  /\ \A m \in KeyChanges(ev, key) : m <= i \/ m > j

\* the keys some action has bound
BoundKeys(ev) == {ev[i].key : i \in {m \in 1..Len(ev) : ev[m].op = "bind"}}

(***************************************************************************)
(* C1                                                                      *)
(***************************************************************************)

\* the expansion loop has ended: Tree::expand has returned false or thrown
ExpansionEnded == phase \in {"expanded", "flattened", "threw", "aborted"}

C2_Determinism ==
  (run = 2 /\ phase \in {"flattened", "threw", "aborted"})
    => /\ firstRun[1].phase = phase
       /\ firstRun[1].results = results

(***************************************************************************)
(* C3                                                                      *)
(***************************************************************************)

\* the scoping round trip on the key, ev being the events so far
RoundTrip(ev, key) ==
  /\ KeyOps(ev, key, 1) = <<"bind", "bind">>
       => RuntimeRule(runtimeDictionary, key) = KeyValues(ev, key, 1)[2]
  /\ KeyOps(ev, key, 1) = <<"bind", "bind", "pop">>
       => RuntimeRule(runtimeDictionary, key) = KeyValues(ev, key, 1)[1]
  /\ KeyOps(ev, key, 1) = <<"bind", "bind", "pop", "pop">>
       => key \notin DOMAIN runtimeDictionary
  /\ \A i, j \in 1..Len(ev) :
       ResolvesAfter(ev, key, i, j) =>
         /\ KeyOps(SubSeq(ev, 1, i), key, 1) = <<"bind", "bind">>
              => ev[j].val.s \in TextsOf(KeyValues(ev, key, 1)[2])
         /\ KeyOps(SubSeq(ev, 1, i), key, 1) = <<"bind", "bind", "pop">>
              => ev[j].val.s \in TextsOf(KeyValues(ev, key, 1)[1])
         /\ KeyOps(SubSeq(ev, 1, i), key, 1) = <<"bind", "bind", "pop", "pop">>
              => ev[j].val.s = IF key \in DOMAIN jsonGrammar
                               THEN jsonGrammar[key].s ELSE Placeholder(key)

\* C3: after key k is bound to v1 and then to v2 a reference #k# resolves to
\* v2; after one pop!! on k to v1; after a second pop!! k is removed entirely
\* from the runtime dictionary and a reference resolves to the grammar's rule
\* k, or to the placeholder {{k}} when the grammar has no rule k.
C3_ScopingRoundTrip == \A key \in BoundKeys(Events) : RoundTrip(Events, key)

(***************************************************************************)
(* C4                                                                      *)
(***************************************************************************)

\* the nodes expandNode has expanded as a rule with leading actions
RuleWithActionsNodes ==
  {n \in 1..Len(nodes) :
     /\ ~nodes[n].isNodeComplete_
     /\ Production(nodes[n].input) = "rule-with-actions"
     /\ hasChildren(nodes, n)}

\* the positions in ev of the events by which the node c was expanded
ExpansionsOf(ev, c) == {i \in 1..Len(ev) : ev[i].op = "expand" /\ ev[i].node = c}

\* every incomplete node among left has been expanded, and every key among
\* left bound, before the i-th event, and none of it happened after
DoneBefore(ev, left, i) ==
  /\ \A m \in left :
       ~nodes[m].isNodeComplete_ => \E j \in ExpansionsOf(ev, m) : j < i
  /\ \A m \in left :
       (nodes[m].keyName # <<>> /\ nodes[m].keyName[1] # <<>>)
         => \E j \in 1..(i - 1) : ev[j].op = "bind" /\ ev[j].node = m
  /\ \A j \in 1..Len(ev) :
       (ev[j].node \in left /\ ev[j].op \in {"expand", "draw", "resolve", "bind"}) => j < i

\* the node n has the actions' child, then the rule's child, and the actions
\* are expanded and their keys bound before the rule's child is expanded
ActionsFirst(ev, n) ==
  /\ Len(nodes[n].children) = 2
  /\ nodes[nodes[n].children[1]].input = RuleActions(nodes[n].input)
  /\ nodes[nodes[n].children[2]].input
       = <<"#">> \o RuleAfterActions(nodes[n].input) \o <<"#">>
  /\ \A i \in ExpansionsOf(ev, nodes[n].children[2]) :
       DoneBefore(ev, Subtree(nodes, nodes[n].children[1]), i)

\* Grammar::flatten has returned the text out for the start text
Flattens(text, out) ==
  (input = text /\ mode = "flatten" /\ phase = "flattened")
    => (results[1].out = out /\ ~results[1].err)

\* C4: a rule reference with leading actions, #[actions]rule#, gets two
\* children in order, the actions and then #rule#, and every key the actions
\* bind is bound before the rule's child is expanded, so that the rule's
\* expansion sees the bindings: "#[k:t]g#" with g = "is #k#" yields "is t".
C4_ActionsBeforeRule ==
  /\ \A n \in RuleWithActionsNodes : ActionsFirst(Events, n)
  /\ Flattens(TextKeyText, <<"i", "s", " ", "t">>)
  /\ Flattens(TextFun, <<"i", "s", " ", "w", " ", "d">>)

\* an action has bound a key, and afterwards the rule's child was expanded
BoundThenExpanded(ev, n) ==
  /\ ExpansionsOf(ev, nodes[n].children[2]) # {}
  /\ \E j \in 1..Len(ev) :
       ev[j].op = "bind" /\ ev[j].node \in Subtree(nodes, nodes[n].children[1])

C4_Witness ==
  /\ \E n \in RuleWithActionsNodes : BoundThenExpanded(Events, n)
  /\ input = TextKeyText /\ mode = "flatten" /\ phase = "flattened"

(***************************************************************************)
(* C5                                                                      *)
(***************************************************************************)

\* the nodes expandNode has expanded as a key-with-text action
KeyWithTextNodes(ev) ==
  {n \in 1..Len(nodes) :
     /\ ~nodes[n].isNodeComplete_
     /\ Production(nodes[n].input) = "key-with-text-action"
     /\ ExpansionsOf(ev, n) # {}}

\* the action node n gives no text to a flatten that leaves hidden nodes out
Suppressed(n) ==
  /\ flatten(nodes, runtimeDictionary, n, TRUE, FALSE).out = <<>>
  /\ ~flatten(nodes, runtimeDictionary, n, TRUE, FALSE).err

\* the key the action node n binds is bound to the tokens of its text, and a
\* reference to the key resolves to one of them (to the text itself when it
\* has no comma) as long as the binding is the key's latest
BoundToText(ev, n) ==
  \A i \in 1..Len(ev) :
    (ev[i].op = "bind" /\ ev[i].node = n) =>
      /\ ev[i].key = ActionKey(nodes[n].input)
      /\ ev[i].val = JArr(SplitCommas(ActionValue(nodes[n].input)))
      /\ \A j \in 1..Len(ev) :
           ResolvesAfter(ev, ev[i].key, i, j)
             => ev[j].val.s \in TextsOf(JArr(SplitCommas(ActionValue(nodes[n].input))))

\* C5: a key-with-text action [k:t] contributes the empty string to the
\* output of flatten with ignoreHidden = true, and a rule reference #k#
\* expanded later in the same tree resolves to t (to one of its
\* comma-separated tokens).
C5_HiddenSuppression ==
  /\ \A n \in KeyWithTextNodes(Events) : Suppressed(n) /\ BoundToText(Events, n)
  /\ Flattens(TextActionRoot, <<>>)
  /\ (input = TextList /\ mode = "flatten" /\ phase = "flattened")
       => results[1].out \in {<<"a">>, <<"b">>}

\* a reference has resolved to the text a key-with-text action bound
ResolvedToText(ev, n) ==
  \E i, j \in 1..Len(ev) :
    /\ ev[i].op = "bind"
    /\ ev[i].node = n
    /\ ResolvesAfter(ev, ev[i].key, i, j)
    /\ ev[j].val.s = ActionValue(nodes[n].input)

C5_Witness ==
  /\ \E n \in KeyWithTextNodes(Events) : ResolvedToText(Events, n)
  /\ results # <<>>

(***************************************************************************)
(* C6                                                                      *)
(***************************************************************************)

\* among the children of node n, the subtree of an incomplete child is
\* expanded and its keys are bound before a sibling to its right is expanded
LeftToRight(ev, n) ==
  \A a, b \in 1..Len(nodes[n].children) :
    (a < b /\ ~nodes[nodes[n].children[a]].isNodeComplete_) =>
      \A i \in ExpansionsOf(ev, nodes[n].children[b]) :
        DoneBefore(ev, Subtree(nodes, nodes[n].children[a]), i)

\* C6: expansion follows the left-to-right document order: among the
\* children of a node, an incomplete child's entire subtree is expanded and
\* its keys are bound before any sibling to its right is expanded.
C6_DocumentOrder == \A n \in 1..Len(nodes) : LeftToRight(Events, n)

\* two incomplete children of node n have been expanded, the left one
\* through several levels and with a key bound in its subtree
TwoExpanded(ev, n) ==
  \E a, b \in 1..Len(nodes[n].children) :
    /\ a < b
    /\ ExpansionsOf(ev, nodes[n].children[b]) # {}
    /\ Cardinality(Subtree(nodes, nodes[n].children[a])) > 3
    /\ \E j \in 1..Len(ev) :
         ev[j].op = "bind" /\ ev[j].node \in Subtree(nodes, nodes[n].children[a])

C6_Witness == \E n \in 1..Len(nodes) : TwoExpanded(Events, n)

(***************************************************************************)
(* C7                                                                      *)
(***************************************************************************)

\* the positions in ev of the bindings Tree::handleKey has made
KeyBindings(ev) == {i \in 1..Len(ev) : ev[i].op = "bind" /\ ev[i].val.t = "string"}

\* the i-th event binds the key of its node to the text of the node's
\* subtree, hidden nodes included and modifiers applied; the binding is the
\* top of the key's stack while it is the key's latest, and a reference to the
\* key then resolves to it
BoundToSubtree(ev, i) ==
  /\ nodes[ev[i].node].keyName = <<ev[i].key>>
  /\ ev[i].val.s = flatten(nodes, runtimeDictionary, ev[i].node, FALSE, FALSE).out
  /\ (\A m \in KeyChanges(ev, ev[i].key) : m <= i)
       => RuntimeRule(runtimeDictionary, ev[i].key) = ev[i].val
  /\ \A j \in 1..Len(ev) :
       ResolvesAfter(ev, ev[i].key, i, j) => ev[j].val = ev[i].val

\* C7: when a key-with-rule action [k:#r#] finishes expanding, the top
\* binding of k is the string obtained by flattening the rule child's subtree
\* with hidden-suppression off and modifiers applied, and a later reference
\* #k# resolves to that string: "#[k:#a#]g#" yields "is gull", also when the
\* rule expands through several levels.
C7_KeyBoundToFlattenedRule ==
  /\ \A i \in KeyBindings(Events) : BoundToSubtree(Events, i)
  /\ Flattens(TextKeyRule, <<"i", "s", " ", "g", "u", "l", "l">>)
  /\ Flattens(TextKeyDeep, <<"i", "s", " ", "o", "u", "t", "s">>)
  /\ Flattens(TextKeyHidden,
              <<"i", "s", " ", "[", "m", ":", "d", "]", "g", "u", "l", "l">>)

\* a key is bound to the text of a subtree that has a hidden node, and a
\* reference has resolved to it
C7_Witness ==
  \E i \in KeyBindings(Events) :
    /\ \E m \in Subtree(nodes, Events[i].node) : nodes[m].isNodeHidden_
    /\ \E j \in 1..Len(Events) : ResolvesAfter(Events, Events[i].key, i, j)

(***************************************************************************)
(* C8                                                                      *)
(***************************************************************************)

\* the positions in history of the calls of Tree::flatten made once
\* Tree::expand had returned false
FullFlattens ==
  {i \in 1..Len(history) :
     history[i].call = "flatten" /\ \E j \in 1..(i - 1) : ReturnedFalse(j)}

\* C8: flatten is idempotent on a fully expanded tree: the calls of
\* Tree::flatten return the same string, also when the expansion loop is run
\* again in between.
C8_FlattenIdempotent ==
  \A i, j \in FullFlattens :
    history[i].out = history[j].out /\ history[i].err = history[j].err

\* two flattens of the expanded tree with a call of Tree::expand in between,
\* the first of which popped a binding
C8_Witness ==
  \E i, j \in FullFlattens :
    /\ i < j
    /\ \E m \in (i + 1)..(j - 1) : history[m].call = "expand"
    /\ \E e \in 1..Len(history[i].ev) : history[i].ev[e].op = "pop"
    /\ history[i].out # <<>>

(***************************************************************************)
(* C9                                                                      *)
(***************************************************************************)

\* the number of bindings of the key outstanding before the i-th event
RECURSIVE Outstanding(_, _, _)
Outstanding(ev, key, i) ==
  IF i <= 1 THEN 0
  ELSE Outstanding(ev, key, i - 1)
       + (IF ev[i - 1].key = key /\ ev[i - 1].op = "bind" THEN 1
          ELSE IF ev[i - 1].key = key /\ ev[i - 1].op = "pop" THEN -1 ELSE 0)

\* the nodes that are a reference to a rule
References == {n \in 1..Len(nodes) : containsOnlyRule(nodes[n].input)}

\* the reference n is to a name with no rule in the grammar, and no binding
\* is outstanding when the i-th event expands it
Undefined(ev, n, i) ==
  /\ i \in ExpansionsOf(ev, n)
  /\ OnlyRuleName(nodes[n].input) \notin DOMAIN jsonGrammar
  /\ Outstanding(ev, OnlyRuleName(nodes[n].input), i) = 0

\* the call of the i-th event raised no error, and the node n has exactly
\* one child, complete, with the text {{name}}
PlaceholderChild(ev, n, i) ==
  /\ history[ev[i].at].err = ""
  /\ Len(nodes[n].children) = 1
  /\ nodes[nodes[n].children[1]].isNodeComplete_
  /\ nodes[nodes[n].children[1]].input
       = <<"{", "{">> \o OnlyRuleName(nodes[n].input) \o <<"}", "}">>

\* C9: a reference to a rule name that has no binding in the runtime
\* dictionary and no rule in the grammar raises no error: the node gets
\* exactly one complete child with the text {{name}}, which appears in the
\* output.
C9_UndefinedRulePlaceholder ==
  /\ \A n \in References : \A i \in 1..Len(Events) :
       Undefined(Events, n, i) => PlaceholderChild(Events, n, i)
  /\ Flattens(TextUndefined, <<"{", "{", "u", "}", "}">>)

(***************************************************************************)
(* C10                                                                     *)
(***************************************************************************)

\* the call c invoked a modifier with a number of parameters other than
\* the declared one
BadInvocation(c) ==
  \E e \in 1..Len(c.ev) : c.ev[e].op = "invoke" /\ ~c.ev[e].ok

\* the call c failed with WrongParametersException and returned no string;
\* the bad invocation was the last thing it did, and every level of the
\* nesting added its context
Failed(c) ==
  /\ c.err = "WrongParametersException"
  /\ c.out = <<>>
  /\ ~c.ret
  /\ c.ev[Len(c.ev)].op = "invoke"
  /\ ~c.ev[Len(c.ev)].ok
  /\ c.ctx # <<>>
  /\ c.ctx[1] = "calling modifier"
  /\ c.call = "expand" => c.ctx[Len(c.ctx)] = "setting key"
  /\ c.call = "flatten"
       => \A m \in 2..Len(c.ctx) : c.ctx[m] = "flattening"

NextNode ==
  IF expandingNodes # <<>> THEN expandingNodes[Len(expandingNodes)]
  ELSE IF nodes[1].isNodeComplete_ \/ hasChildren(nodes, 1) THEN 0
  ELSE 1

\* what is wrong with the contents c as the contents of a rule handled by an
\* object handler: nothing ("none") if c is no object
Defect(c) ==
  IF c.t # "object" THEN "none"
  ELSE IF c.h = <<>> THEN "no handler"
  ELSE IF c.h[1] \notin DOMAIN objectHandlers THEN "unregistered handler"
  ELSE IF handleObj(objectHandlers[c.h[1]], c, 0).t # "string" THEN "no string"
  ELSE "none"

\* the defect of the contents the next call of Tree::expand resolves a rule to
NextDefect ==
  IF NextNode # 0 /\ containsOnlyRule(NextText)
  THEN Defect(RuleContents(jsonGrammar, runtimeDictionary, OnlyRuleName(NextText), JNull))
  ELSE "none"

\* the call of Tree::expand this step makes ends with BadHandlerException
ThrowsBadHandler ==
  /\ phase' = "threw"
  /\ Len(history') = Len(history) + 1
  /\ history'[Len(history')].err = "BadHandlerException"

\* a step that is a call of Tree::expand throws BadHandlerException exactly
\* when the node it expands resolves to defective object contents, and the
\* node then has no child and no modifier
BadHandlerStep ==
  calls' = calls + 1 =>
    /\ ThrowsBadHandler <=> NextDefect # "none"
    /\ ThrowsBadHandler =>
          /\ nodes' = nodes
          /\ nodes'[NextNode].children = <<>>
          /\ nodes'[NextNode].modifiers = <<>>
          /\ runtimeDictionary' = runtimeDictionary

\* C11: expanding an only-rule node whose resolved content is an object
\* fails with BadHandlerException when the object has no "handler" field,
\* names an unregistered handler, or its handler returns a non-string (and
\* only then); the node gets no child and records no modifier.
C11_BadHandlerFails == [][BadHandlerStep]_vars

\* the object's handler ran and returned a number: the expansion of the
\* root, a rule reference with a modifier, threw and left the root bare
C11_Witness ==
  /\ input = TextNonString
  /\ phase = "threw"
  /\ history[Len(history)].err = "BadHandlerException"
  /\ nodes[1].children = <<>>
  /\ nodes[1].modifiers = <<>>

(***************************************************************************)
(* C12                                                                     *)
(***************************************************************************)

\* the values actions have bound to the key and pop!! has not removed, after
\* the first i events of ev, the latest last
RECURSIVE ActionStack(_, _, _)
ActionStack(ev, key, i) ==
  IF i = 0 THEN <<>>
  ELSE IF ev[i].key = key /\ ev[i].op = "bind"
  THEN Append(ActionStack(ev, key, i - 1), ev[i].val)
  ELSE IF ev[i].key = key /\ ev[i].op = "pop" /\ ActionStack(ev, key, i - 1) # <<>>
  THEN Sub(ActionStack(ev, key, i - 1), 1, Len(ActionStack(ev, key, i - 1)) - 1)
  ELSE ActionStack(ev, key, i - 1)

\* the value shadowing decides for: the latest binding st holds, the
\* grammar's rule without one
Shadowing(st, key) == IF st # <<>> THEN st[Len(st)] ELSE jsonGrammar[key]

\* the j-th event resolves a rule name to a text of the value val
ResolvesTo(ev, j, val) ==
  val.t \in {"string", "array"} => ev[j].val.s \in TextsOf(val)

\* every resolution of a name that is bound or a rule of the grammar
\* resolves to the binding if there is one and to the rule otherwise
Shadowed(ev) ==
  \A j \in 1..Len(ev) :
    (/\ ev[j].op = "resolve"
     /\ (ActionStack(ev, ev[j].key, j - 1) # <<>> \/ ev[j].key \in DOMAIN jsonGrammar))
      => ResolvesTo(ev, j, Shadowing(ActionStack(ev, ev[j].key, j - 1), ev[j].key))

\* C12: resolving a rule name uses the top binding of that key when one
\* exists and the grammar's rule of that name only otherwise: a key bound by
\* an action under the name of a grammar rule shadows the rule for every
\* later reference until it is popped.
C12_Shadowing == Shadowed(Events)

\* "[r:t]#o#": the key r bound by the action shadows the grammar's rule r
\* ("out") in the expansion of the rule o ("#r#")
C12_Witness ==
  /\ input = TextShadow
  /\ phase = "flattened"
  /\ results[Len(results)].out = <<"t">>
  /\ jsonGrammar[<<"r">>].s = <<"o", "u", "t">>

(***************************************************************************)
(* C13                                                                     *)
(***************************************************************************)

\* the modifier tokens written in the rule reference text
WrittenModifiers(text) == ModTokens(OnlyRuleMods(text), 1)

\* node n has exactly one child, with the given text
OnlyChild(n, text) ==
  /\ Len(nodes[n].children) = 1
  /\ nodes[nodes[n].children[1]].input = text

\* every node resolved to contents that are a string has recorded the
\* modifiers of its text and has that string as its only child
StringVerbatim(ev) ==
  \A j \in 1..Len(ev) :
    (/\ ev[j].op = "resolve"
     /\ (ActionStack(ev, ev[j].key, j - 1) # <<>> \/ ev[j].key \in DOMAIN jsonGrammar)
     /\ Shadowing(ActionStack(ev, ev[j].key, j - 1), ev[j].key).t = "string")
      => /\ OnlyChild(ev[j].node, Shadowing(ActionStack(ev, ev[j].key, j - 1), ev[j].key).s)
         /\ nodes[ev[j].node].modifiers = WrittenModifiers(nodes[ev[j].node].input)

\* the flatten of the tree whose start text is text has returned out
Flattened(text, out) ==
  (input = text /\ phase = "flattened")
    => (~results[Len(results)].err /\ results[Len(results)].out = out)

\* C13: expanding an only-rule node whose resolved content is a string
\* records the node's modifiers and creates exactly one child whose text is
\* that string verbatim; the chain o -> #r# -> "out" flattens to "out".
C13_StringVerbatim ==
  /\ StringVerbatim(Events)
  /\ Flattened(TextBasic, <<"o", "u", "t">>)

\* "#[k:#o.s#]g#": the node "#o.s#" has recorded the modifier s, its only
\* child is the text of the rule o, "#r#", and that node's only child is "out"
C13_Witness ==
  /\ input = TextKeyDeep
  /\ phase = "expanded"
  /\ \E n \in 1..Len(nodes) :
       /\ nodes[n].input = <<"#", "o", ".", "s", "#">>
       /\ nodes[n].modifiers = << <<"s">> >>
       /\ OnlyChild(n, <<"#", "r", "#">>)
       /\ OnlyChild(nodes[n].children[1], <<"o", "u", "t">>)

(***************************************************************************)
(* C14                                                                     *)
(***************************************************************************)

\* the contents the next call of Tree::expand resolves a rule to, null if it
\* resolves none
NextContents ==
  IF NextNode # 0 /\ containsOnlyRule(NextText)
  THEN RuleContents(jsonGrammar, runtimeDictionary, OnlyRuleName(NextText), JNull)
  ELSE JNull

\* the call of Tree::expand this step makes has returned, without an error
ExpandReturns ==
  /\ Len(history') = Len(history) + 1
  /\ history'[Len(history')].err = ""

\* the step's call of Tree::expand has given the node n one child, the
\* element of the array arr at the index the selector produced in this call
ChoseElement(n, arr) ==
  /\ ExpandReturns
  /\ Len(tape') = Len(tape) + 1
  /\ tape'[Len(tape')] \in 0..(Len(arr) - 1)
  /\ Len(nodes'[n].children) = 1
  /\ nodes'[nodes'[n].children[1]].input = arr[tape'[Len(tape')] + 1]

\* a step that is a call of Tree::expand on a node whose rule resolves to an
\* array gives the node the chosen element as its only child
ArrayStep ==
  (calls' = calls + 1 /\ NextContents.t = "array") => ChoseElement(NextNode, NextContents.a)

\* C14: when an only-rule node's resolved content is an array, exactly one
\* child is created and its text is the array element at the index produced
\* by the selector, which is always an element of the array.
C14_ArrayChoice == [][ArrayStep]_vars

(***************************************************************************)
(* C15                                                                     *)
(***************************************************************************)

\* the modifier token is a call of the string modifier s or ap (the
\* one-parameter modifier) with the number of parameters it declares
StringCall(mod) ==
  \/ ModName(mod) = <<"s">> /\ ModParams(mod) = <<>>
  \/ ModName(mod) = <<"a", "p">> /\ Len(ModParams(mod)) = 1

\* what such a call makes of the text
ApplyOne(mod, text) ==
  IF ModName(mod) = <<"s">> THEN PluralS(text) ELSE AppendParam(text, ModParams(mod)[1])

\* the text after the modifiers mods, each applied to the result of the one
\* written before it
RECURSIVE Applied(_, _)
Applied(mods, text) ==
  IF mods = <<>> THEN text
  ELSE ApplyOne(mods[Len(mods)], Applied(Sub(mods, 1, Len(mods) - 1), text))

\* the flatten r of a node with the modifiers mods whose text without them is base
InOrder(mods, base, r) ==
  (~base.err /\ base.out # <<>>) => (~r.err /\ r.out = Applied(mods, base.out))

\* the nodes whose modifiers are all such calls
StringModified ==
  {n \in 1..Len(nodes) :
     /\ nodes[n].modifiers # <<>>
     /\ \A i \in 1..Len(nodes[n].modifiers) : StringCall(nodes[n].modifiers[i])}

\* C15: the modifiers of a rule reference are applied in left-to-right
\* order, each receiving the string produced by the previous one, and the
\* string after the last is the node's flattened value: "#a.s.ap(x)#" with
\* a = "gull" gives "gullsx".
C15_ModifiersInOrder ==
  /\ \A n \in StringModified :
       InOrder(nodes[n].modifiers,
               flatten(nodes, runtimeDictionary, n, FALSE, TRUE),
               flatten(nodes, runtimeDictionary, n, FALSE, FALSE))
  /\ Flattened(TextChain, <<"g", "u", "l", "l", "s", "x">>)

\* "#a.s.ap(x)#" has been expanded and flattened: the root carries the two
\* modifiers s and ap(x), which do not commute
C15_Witness ==
  /\ input = TextChain
  /\ phase = "flattened"
  /\ nodes[1].modifiers = << <<"s">>, <<"a", "p", "(", "x", ")">> >>
  /\ 1 \in StringModified
  /\ ~results[Len(results)].err

(***************************************************************************)
(* C16                                                                     *)
(***************************************************************************)

\* the expanded nodes that are keyless rule actions, [#rule#]
KeylessNodes ==
  {n \in 1..Len(nodes) :
     /\ ~nodes[n].isNodeComplete_
     /\ hasChildren(nodes, n)
     /\ Production(nodes[n].input) = "keyless-rule-action"}

\* the node is among the nodes ev reports as popped off the expansion stack
Completed(ev, n) == \E i \in 1..Len(ev) : ev[i].op = "done" /\ ev[i].node = n

\* the keyless action n has one child, the inner rule, whose key is the
\* empty text
KeylessChild(n) ==
  /\ Len(nodes[n].children) = 1
  /\ nodes[nodes[n].children[1]].input = KeylessRule(nodes[n].input)
  /\ nodes[nodes[n].children[1]].keyName = << <<>> >>

\* the child's completion has run its modifiers and bound no key
Discarded(ev, c) ==
  /\ \A i \in 1..Len(ev) : ev[i].op = "bind" => ev[i].node # c
  /\ (nodes[c].modifiers # <<>> /\ flatten(nodes, runtimeDictionary, c, FALSE, TRUE).out # <<>>)
       => \E i \in 1..Len(ev) :
            ev[i].op = "invoke" /\ ev[i].node = c /\ ev[i].call = "expand"

\* the keyless action n adds nothing to the text a flatten of the expanded
\* tree returns
Invisible(n) == flatten(nodes, runtimeDictionary, n, TRUE, FALSE).out = <<>>

KeylessDiscard(ev) ==
  \A n \in KeylessNodes :
    /\ KeylessChild(n)
    /\ Completed(ev, nodes[n].children[1]) => Discarded(ev, nodes[n].children[1])
    /\ phase \in {"expanded", "flattened"} => Invisible(n)

\* C16: a keyless rule action [#r.mods#] creates one child for the inner
\* rule with its key set to the empty string; when that child completes its
\* subtree is flattened (so its modifiers take effect) but no binding is
\* pushed under any key, and the action contributes nothing to the visible
\* output of the final flatten.
C16_KeylessDiscard == KeylessDiscard(Events)

(***************************************************************************)
(* C17                                                                     *)
(***************************************************************************)

\* no call has been made on the tree yet
FreshTree == calls = 0 /\ history = <<>>

\* the dictionary holds the grammar's rules and nothing else
OnlyGrammarRules(dict) ==
  /\ DOMAIN dict = DOMAIN Grammar
  /\ \A k \in DOMAIN Grammar : dict[k] = <<Grammar[k]>>

\* C17: a tree's runtime dictionary is private to it: a new tree obtained
\* from the same Grammar starts from the grammar's own rules only, whatever
\* was pushed or popped in an earlier tree, and the Grammar's rules are
\* unchanged by any expansion.
C17_PrivateDictionary ==
  /\ jsonGrammar = Grammar
  /\ FreshTree => OnlyGrammarRules(runtimeDictionary)

\* a second tree has been made after the first tree's expansion had bound
\* the key k, which the grammar does not have
C17_Witness ==
  /\ run = 2
  /\ FreshTree
  /\ <<"k">> \in DOMAIN firstRun[1].dict
  /\ <<"k">> \notin DOMAIN runtimeDictionary

(***************************************************************************)
(* C18                                                                     *)
(***************************************************************************)

\* the tokens of mods whose name is in the registry, in order
RECURSIVE Registered(_)
Registered(mods) ==
  IF mods = <<>> THEN <<>>
  ELSE (IF ModName(Head(mods)) \in DOMAIN modifierFunctions THEN <<Head(mods)>> ELSE <<>>)
       \o Registered(Tail(mods))

\* the nodes with a modifier token whose name is not in the registry
UnknownModified ==
  {n \in 1..Len(nodes) : Registered(nodes[n].modifiers) # nodes[n].modifiers}

\* the two flattens return the same text, or both throw
SameOutcome(r1, r2) == r1.err = r2.err /\ r1.out = r2.out

\* C18: a modifier token whose name is not in the registry is a no-op: the
\* node flattens as it would without the token, no error is raised for it,
\* and the following modifiers are still applied ("#r.zz.s#" gives "outs").
C18_UnknownModifierNoOp ==
  /\ \A n \in UnknownModified :
       SameOutcome(flatten(nodes, runtimeDictionary, n, FALSE, FALSE),
                   flatten([nodes EXCEPT ![n].modifiers = Registered(@)],
                           runtimeDictionary, n, FALSE, FALSE))
  /\ Flattened(TextUnknownMod, <<"o", "u", "t", "s">>)

\* "#r.zz.s#" has been flattened: the root carries the unregistered zz
\* followed by the registered s
C18_Witness ==
  /\ input = TextUnknownMod
  /\ phase = "flattened"
  /\ nodes[1].modifiers = << <<"z", "z">>, <<"s">> >>
  /\ 1 \in UnknownModified
  /\ results[Len(results)].out = <<"o", "u", "t", "s">>

(***************************************************************************)
(* C19                                                                     *)
(***************************************************************************)

\* the nodes that carry modifiers
ModifiedNodes == {n \in 1..Len(nodes) : nodes[n].modifiers # <<>>}

\* base is the flatten of a node without its own modifiers and r the flatten
\* with them: if base is the empty text, r is the empty text too, raises no
\* error, leaves the dictionary as base left it and has invoked no modifier
\* beyond those base invoked in the node's subtree
ShortCircuit(base, r) ==
  (~base.err /\ base.out = <<>>)
    => (r.out = <<>> /\ ~r.err /\ r.dict = base.dict /\ r.ev = base.ev)

\* the value of ignoreHidden in the flattens of the i-th call on the tree:
\* Tree::flatten suppresses hidden nodes, Tree::handleKey does not
HiddenIgnored(i) == history[i].call = "flatten"

\* the modifier invocations the last call has made were all on nodes whose
\* text without their own modifiers is not empty
InvokedOnText(i) ==
  \A j \in 1..Len(history[i].ev) :
    history[i].ev[j].op = "invoke"
      => flatten(nodes, runtimeDictionary, history[i].ev[j].node,
                 HiddenIgnored(i), TRUE).out # <<>>

\* C19: if a node with modifiers flattens (ignoring its own modifiers) to
\* the empty string, flatten returns the empty string and none of that
\* node's modifiers is invoked: no string modifier runs, no tree modifier
\* takes effect, and no arity error is raised.
C19_EmptyShortCircuit ==
  /\ \A n \in ModifiedNodes, h \in BOOLEAN :
       ShortCircuit(flatten(nodes, runtimeDictionary, n, h, TRUE),
                    flatten(nodes, runtimeDictionary, n, h, FALSE))
  /\ history # <<>> => InvokedOnText(Len(history))

\* "#e.ap#" with e = "" has been flattened to the empty text without an
\* error, although the root's modifier ap is written without its parameter
C19_Witness ==
  /\ input = TextEmptyMod
  /\ phase = "flattened"
  /\ nodes[1].modifiers = << <<"a", "p">> >>
  /\ WrongParameters(modifierFunctions[<<"a", "p">>].nparams, ModParams(nodes[1].modifiers[1]))
  /\ results[Len(results)].out = <<>>
  /\ ~results[Len(results)].err

(***************************************************************************)
(* C20                                                                     *)
(***************************************************************************)

\* the modifier token is a name followed by empty parentheses
EmptyParens(mod) ==
  /\ Len(mod) > 2
  /\ Sub(mod, Len(mod) - 1, Len(mod)) = <<"(", ")">>
  /\ \A i \in 1..(Len(mod) - 2) : mod[i] \notin {"(", ")"}

\* the tokens mods, each name() written as name
RECURSIVE WithoutParens(_)
WithoutParens(mods) ==
  IF mods = <<>> THEN <<>>
  ELSE <<IF EmptyParens(Head(mods)) THEN Sub(Head(mods), 1, Len(Head(mods)) - 2)
         ELSE Head(mods)>>
       \o WithoutParens(Tail(mods))

\* the nodes with a modifier token name()
ParensModified ==
  {n \in 1..Len(nodes) : WithoutParens(nodes[n].modifiers) # nodes[n].modifiers}

\* C20: a modifier token written with empty parentheses, name(), is
\* dispatched with zero parameters, not with one empty-string parameter: the
\* node flattens as it does with the token written without parentheses
\* ("#a.s()#" gives "gulls" as "#a.s#" does, and "#r.ap()#" fails as
\* "#r.ap#" does).
C20_EmptyParensNoParams ==
  /\ \A n \in ParensModified :
       SameOutcome(flatten(nodes, runtimeDictionary, n, FALSE, FALSE),
                   flatten([nodes EXCEPT ![n].modifiers = WithoutParens(@)],
                           runtimeDictionary, n, FALSE, FALSE))
  /\ Flattened(TextEmptyParens, <<"g", "u", "l", "l", "s">>)

\* "#a.s()#" has been flattened: the root carries the token s() and the
\* zero-parameter modifier s has accepted it
C20_Witness ==
  /\ input = TextEmptyParens
  /\ phase = "flattened"
  /\ nodes[1].modifiers = << <<"s", "(", ")">> >>
  /\ 1 \in ParensModified
  /\ results[Len(results)].out = <<"g", "u", "l", "l", "s">>

(***************************************************************************)
(* C21                                                                     *)
(***************************************************************************)

\* the step is a call of Tree::expand that runs the expansion step on a node
ExpandsNode == calls' = calls + 1 /\ NextNode # 0

\* the step belongs to the tree at hand: no new tree is made
SameTree == run' = run

\* the children of every node that has children stay what they are
ChildrenKept ==
  \A n \in 1..Len(nodes) :
    hasChildren(nodes, n)
      => (n <= Len(nodes') /\ nodes'[n].children = nodes[n].children)

\* the expansion step is run only on an incomplete node without children,
\* and no step changes the children a node has
ExpandedOnce ==
  /\ ExpandsNode => (~hasChildren(nodes, NextNode) /\ ~nodes[NextNode].isNodeComplete_)
  /\ SameTree => ChildrenKept

\* C21: each node's children list is populated at most once: over any
\* sequence of Tree::expand calls the expansion step is never run on a node
\* that already has children and never on a complete node.
C21_ExpandedOnce == [][ExpandedOnce]_vars

\* "#[k:#o.s#]g#" is fully expanded: the parents were left on the expansion
\* stack while their children were expanded, and each node below the root
\* has got its children in one call
C21_Witness ==
  /\ input = TextKeyDeep
  /\ phase = "expanded"
  /\ calls > Cardinality({n \in 1..Len(nodes) : hasChildren(nodes, n)})
  /\ \E n \in 2..Len(nodes) : Len(nodes[n].children) = 2

(***************************************************************************)
(* C22                                                                     *)
(***************************************************************************)

\* some call of Tree::expand on this tree has returned false
HasReturnedFalse == \E i \in 1..Len(history) : ReturnedFalse(i)

\* the call of Tree::expand this step makes returns false and leaves the
\* nodes, the runtime dictionary and the expansion stack as they are
FalseAgain ==
  /\ Len(history') = Len(history) + 1
  /\ history'[Len(history')].call = "expand"
  /\ history'[Len(history')].err = ""
  /\ ~history'[Len(history')].ret
  /\ nodes' = nodes
  /\ runtimeDictionary' = runtimeDictionary
  /\ expandingNodes' = expandingNodes

\* a call of Tree::expand made after one that returned false
FalseStays == (HasReturnedFalse /\ calls' = calls + 1) => FalseAgain

\* C22: once Tree::expand has returned false, every later call returns false
\* and leaves the node graph, the runtime dictionary and the expansion stack
\* unchanged, whatever production the start text matches.
C22_FalseStays == [][FalseStays]_vars

(***************************************************************************)
(* C23                                                                     *)
(***************************************************************************)

\* the nodes that carry a key: Tree::handleKey binds it
KeyedNodes ==
  {n \in 1..Len(nodes) : nodes[n].keyName # <<>> /\ nodes[n].keyName[1] # <<>>}

\* the event op on node n is among the first i - 1 events of ev
Before(ev, i, op, n) == \E j \in 1..(i - 1) : ev[j].op = op /\ ev[j].node = n

\* the i-th event of ev is the binding of the key of a node by Tree::handleKey
KeyBound(ev, i) == ev[i].op = "bind" /\ ev[i].node \in KeyedNodes

\* when the key of a node is bound, every incomplete node of its subtree has
\* been expanded and popped, and every node below it that carries a key has
\* had its key bound
InnermostFirst(ev) ==
  \A i \in 1..Len(ev) :
    KeyBound(ev, i) =>
      \A m \in Subtree(nodes, ev[i].node) :
        /\ ~nodes[m].isNodeComplete_
             => (Before(ev, i, "expand", m) /\ Before(ev, i, "done", m))
        /\ (m \in KeyedNodes /\ m # ev[i].node) => Before(ev, i, "bind", m)

\* C23: keys are bound innermost first and only on fully resolved nodes:
\* when a node's key is pushed, every incomplete node in its subtree has
\* been expanded and popped, and every descendant that carries a key has
\* been bound before.
C23_InnermostFirst == InnermostFirst(Events)

\* a key bound inside the subtree of another key
BoundInside(ev) ==
  \E i \in 1..Len(ev), j \in 1..Len(ev) :
    /\ i < j
    /\ KeyBound(ev, i)
    /\ KeyBound(ev, j)
    /\ ev[i].node # ev[j].node
    /\ ev[i].node \in Subtree(nodes, ev[j].node)

\* "#[k:#l#]g#", l = "#[m:#a#]r#": m is bound inside the subtree k is bound to
C23_Witness == input = TextKeyNested /\ phase = "expanded" /\ BoundInside(Events)

(***************************************************************************)
(* C24                                                                     *)
(***************************************************************************)

\* the last call on this tree was a call of Tree::expand that returned false
LastReturnedFalse == history # <<>> /\ ReturnedFalse(Len(history))

\* the nodes the expansion step has been run on
ExpandedNodes(ev) == {ev[i].node : i \in {j \in 1..Len(ev) : ev[j].op = "expand"}}

\* no node reachable from the root is incomplete and not expanded, and the
\* expansion stack is empty
FullyExpanded(ev) ==
  /\ expandingNodes = <<>>
  /\ \A n \in Subtree(nodes, 1) : nodes[n].isNodeComplete_ \/ n \in ExpandedNodes(ev)

\* C24: when Tree::expand returns false the tree is fully expanded: no node
\* reachable from the root is both incomplete and never expanded, and the
\* expansion stack is empty.
C24_FalseMeansExpanded == LastReturnedFalse => FullyExpanded(Events)

\* Tree::expand has returned false on "x#[k:#o#]g##[k:#a#]g#.": every one
\* of the incomplete nodes, at several depths, has been expanded
C24_Witness ==
  /\ input = TextOrder
  /\ LastReturnedFalse
  /\ Cardinality(ExpandedNodes(Events)) >= 8
  /\ Subtree(nodes, 1) = 1..Len(nodes)

(***************************************************************************)
(* C25                                                                     *)
(***************************************************************************)

\* the comma-separated tokens of the text of the action node n
TokensOf(n) == SplitCommas(ActionValue(nodes[n].input))

\* the expansion of the action node n has bound its key to the array of the
\* tokens of its text
BoundToTokens(ev, n) ==
  \E i \in 1..Len(ev) :
    /\ ev[i].op = "bind"
    /\ ev[i].node = n
    /\ ev[i].key = ActionKey(nodes[n].input)
    /\ ev[i].val = JArr(TokensOf(n))

\* the action node n has one child per token of its text, in order
ChildPerToken(n) ==
  /\ Len(nodes[n].children) = Len(TokensOf(n))
  /\ \A i \in 1..Len(nodes[n].children) :
       nodes[nodes[n].children[i]].input = TokensOf(n)[i]

\* C25: the key-with-text production [k:a,b,c] marks the node hidden, pushes
\* onto k's stack an array of the comma-separated tokens in order, and
\* creates one child per token.
C25_KeyWithText ==
  \A n \in KeyWithTextNodes(Events) :
    nodes[n].isNodeHidden_ /\ BoundToTokens(Events, n) /\ ChildPerToken(n)

(***************************************************************************)
(* C26                                                                     *)
(***************************************************************************)

\* the text is an action [key:] with an empty value
EmptyValueAction(text) ==
  /\ Len(text) = 4
  /\ text[1] = "["
  /\ text[2] \in Alnum
  /\ text[3] = ":"
  /\ text[4] = "]"

\* the nodes with an action [key:] as text that have been expanded
EmptyValueNodes(ev) ==
  {n \in ExpandedNodes(ev) : EmptyValueAction(nodes[n].input)}

\* the action node n has a child, its children are complete, and its key is
\* bound to the empty array
EmptyValueBound(ev, n) ==
  /\ hasChildren(nodes, n)
  /\ areChildrenComplete(nodes, n)
  /\ \E i \in 1..Len(ev) :
       /\ ev[i].op = "bind"
       /\ ev[i].key = <<nodes[n].input[2]>>
       /\ ev[i].val = JArr(<<>>)

\* the start text "[k:]#k#" flattens to the empty text
EmptyValueOutput ==
  (input = TextEmptyValue /\ phase \notin {"expanding", "expanded"})
    => (phase = "flattened" /\ results[1].out = <<>>)

\* C26: the action [k:] with an empty value is resolved in finitely many
\* steps: it creates a complete child and binds k to an empty array, so that
\* a later lookup of k yields the empty text and not the placeholder.
C26_EmptyValue ==
  /\ \A n \in EmptyValueNodes(Events) : EmptyValueBound(Events, n)
  /\ EmptyValueOutput

(***************************************************************************)
(* C27                                                                     *)
(***************************************************************************)

\* the events of the call this step makes
StepEvents ==
  IF Len(history') = Len(history) + 1 THEN history'[Len(history')].ev ELSE <<>>

\* the stack of the key in the dictionary dict, empty if it has none
StackOf(dict, key) == IF key \in DOMAIN dict THEN dict[key] ELSE <<>>

\* the number of events op on the key among ev
CountOf(ev, op, key) ==
  Cardinality({i \in 1..Len(ev) : ev[i].op = op /\ ev[i].key = key})

\* the step has not popped the key: its stack holds the entries it held, in
\* their places, and above them one entry per binding the step has made
Grown(key) ==
  CountOf(StepEvents, "pop", key) = 0 =>
    /\ Len(StackOf(runtimeDictionary', key))
         = Len(StackOf(runtimeDictionary, key)) + CountOf(StepEvents, "bind", key)
    /\ SubSeq(StackOf(runtimeDictionary', key), 1, Len(StackOf(runtimeDictionary, key)))
         = StackOf(runtimeDictionary, key)

\* every step on the tree at hand keeps or grows the stack of every key
\* that pop!! has not been called on
StacksGrow ==
  SameTree => \A key \in DOMAIN runtimeDictionary \cup DOMAIN runtimeDictionary' : Grown(key)

\* C27: binding a key that is already bound pushes a new entry and keeps the
\* earlier ones, and no operation other than pop!! decreases the size of any
\* key's stack.
C27_StacksGrow == [][StacksGrow]_vars

\* "[k:a][k:b]...": the second binding of k lies on top of the first
C27_Witness ==
  /\ input = TextScope
  /\ StackOf(runtimeDictionary, <<"k">>) = <<JArr(<<<<"a">>>>), JArr(<<<<"b">>>>)>>

(***************************************************************************)
(* C28                                                                     *)
(***************************************************************************)

\* the references #k.pop!!#: the nodes whose only modifier is pop!!
PopNodes ==
  {n \in 1..Len(nodes) :
     /\ Len(nodes[n].modifiers) = 1
     /\ nodes[n].modifiers[1] = <<"p", "o", "p", "!", "!">>}

\* the dictionary dict with the top binding of the key removed, and the key
\* erased if that was its only binding; dict itself if the key has none
Popped(dict, key) ==
  IF StackOf(dict, key) = <<>> THEN dict
  ELSE IF Len(dict[key]) = 1 THEN [k \in DOMAIN dict \ {key} |-> dict[k]]
  ELSE [k \in DOMAIN dict |->
          IF k = key THEN SubSeq(dict[k], 1, Len(dict[k]) - 1) ELSE dict[k]]

\* the flatten r of the reference n, whose flatten without its modifier is
\* base, has popped the key the reference names and given the empty text
PopApplied(n, base, r) ==
  /\ ~r.err
  /\ r.out = <<>>
  /\ r.dict = Popped(base.dict, RuleNameOf(nodes[n].input, 1))

\* the flatten of the reference n pops its key
PopTakesEffect(n, ignoreHidden) ==
  PopApplied(n, flatten(nodes, runtimeDictionary, n, ignoreHidden, TRUE),
             flatten(nodes, runtimeDictionary, n, ignoreHidden, FALSE))

\* the text of the reference n without its modifier
BaseOutput(n, ignoreHidden) == flatten(nodes, runtimeDictionary, n, ignoreHidden, TRUE).out

\* C28 as stated: applying pop!! through a rule reference #k.pop!!# removes
\* exactly the top binding of k whenever k has a binding, erases k when its
\* stack becomes empty, leaves the stack of every other key unchanged, does
\* nothing when k has no binding, and contributes the empty text.
C28_PopRemovesTop ==
  \A n \in PopNodes, ignoreHidden \in BOOLEAN : PopTakesEffect(n, ignoreHidden)

\* C28 amended: applying pop!! through a rule reference #k.pop!!# whose text
\* without the modifier is not empty removes exactly the top binding of k
\* whenever k has a binding, erases k when its stack becomes empty, leaves
\* the stack of every other key unchanged, does nothing when k has no
\* binding, and contributes the empty text.
C28_PopOnText ==
  \A n \in PopNodes, ignoreHidden \in BOOLEAN :
    BaseOutput(n, ignoreHidden) # <<>> => PopTakesEffect(n, ignoreHidden)

\* "[k:a][k:b]#k.pop!!##k#": the reference #k.pop!!# is expanded, its text is
\* not empty, and k holds two bindings of which its flatten removes the upper
C28_Witness ==
  /\ input = TextPopFlat
  /\ \E n \in PopNodes :
       /\ BaseOutput(n, TRUE) # <<>>
       /\ Len(StackOf(runtimeDictionary, RuleNameOf(nodes[n].input, 1))) = 2
       /\ PopTakesEffect(n, TRUE)

(***************************************************************************)
(* C29                                                                     *)
(***************************************************************************)

\* the events of the last call made on this tree
LastEvents == IF history = <<>> THEN <<>> ELSE history[Len(history)].ev

\* the node n and its whole subtree are expanded: no node of the subtree is
\* incomplete and not expanded
SubtreeExpanded(ev, n) ==
  \A m \in Subtree(nodes, n) : nodes[m].isNodeComplete_ \/ m \in ExpandedNodes(ev)

\* every modifier the last call has invoked was invoked on a node whose
\* subtree is expanded
InvokedOnExpanded(ev) ==
  \A i \in 1..Len(LastEvents) :
    LastEvents[i].op = "invoke" => SubtreeExpanded(ev, LastEvents[i].node)

\* C29: a node's modifiers are applied only after the node and its whole
\* subtree are fully expanded: no modifier function is invoked, by a flatten
\* call made between expansion steps or during key binding, on a node whose
\* subtree still contains an unexpanded incomplete node.
C29_ModifiersAfterExpansion == InvokedOnExpanded(Events)

(***************************************************************************)
(* C30                                                                     *)
(***************************************************************************)

\* the flattened values of the nodes cs, each with its modifiers applied and
\* with the dictionary the one before left, put together in order after the
\* text ret: the text, the dictionary afterwards, and whether one of them threw
RECURSIVE Concatenated(_, _, _, _)
RECURSIVE Joined(_, _, _, _)
Concatenated(cs, dict, ignoreHidden, ret) ==
  IF cs = <<>> THEN [out |-> ret, dict |-> dict, err |-> FALSE]
  ELSE Joined(Tail(cs), ignoreHidden, ret,
              flatten(nodes, dict, Head(cs), ignoreHidden, FALSE))

\* the flattened value first of a node, followed by those of the nodes cs
Joined(cs, ignoreHidden, ret, first) ==
  IF first.err THEN [out |-> <<>>, dict |-> first.dict, err |-> TRUE]
  ELSE Concatenated(cs, first.dict, ignoreHidden, ret \o first.out)

\* the flatten r and the text c put together from the children agree
SameText(r, c) ==
  /\ r.err = c.err
  /\ ~r.err => (r.out = c.out /\ r.dict = c.dict)

\* the flatten r has invoked no modifier on node n itself
OwnSuppressed(r, n) ==
  \A i \in 1..Len(r.ev) : ~(r.ev[i].op = "invoke" /\ r.ev[i].node = n)

\* the flatten r of node n with ignoreModifiers = true is the text put
\* together from its children, and has invoked none of the node's own modifiers
ChildrenConcatenated(n, ignoreHidden, r) ==
  /\ SameText(r, Concatenated(nodes[n].children, runtimeDictionary, ignoreHidden, <<>>))
  /\ OwnSuppressed(r, n)

ModifiedChild(n, ignoreHidden) ==
  \E i \in 1..Len(nodes[n].children) :
    flatten(nodes, runtimeDictionary, nodes[n].children[i], ignoreHidden, FALSE).out
      # flatten(nodes, runtimeDictionary, nodes[n].children[i], ignoreHidden, TRUE).out

Consulted(ev) == Cardinality({i \in 1..Len(ev) : ev[i].op = "draw"})

\* the call of Tree::expand this step makes resolves a rule: it runs the
\* only-rule branch on the stack's top
ResolvesRule ==
  /\ calls' = calls + 1
  /\ phase' # "exhausted"
  /\ NextNode # 0
  /\ containsOnlyRule(NextText)

\* the step's call consults the source once and appends what it produced
ConsultedOnce ==
  /\ Len(history') = Len(history) + 1
  /\ Consulted(history'[Len(history')].ev) = 1
  /\ Len(tape') = Len(tape) + 1

\* the step's call does not consult the source
NotConsulted ==
  /\ Len(history') = Len(history) + 1
  /\ Consulted(history'[Len(history')].ev) = 0
  /\ tape' = tape

\* a resolution consults the source once for an array and never for a string
DrawPerArray ==
  ResolvesRule =>
    /\ NextContents.t = "array" => ConsultedOnce
    /\ NextContents.t = "string" => NotConsulted

\* the draws are consumed in the order of the expansion: in "#d#", d =
\* ["#c#", "#a#"], c = ["x", "y"], the first value chooses in d and the second in c
DrawOrder ==
  (input = TextChoiceDeep /\ phase' = "flattened" /\ results' # <<>>) =>
    /\ tape' = <<0, 1>> => results'[1].out = <<"y">>
    /\ tape' = <<0, 0>> => results'[1].out = <<"x">>
    /\ tape' = <<1>> => results'[1].out = <<"g", "u", "l", "l">>
    /\ tape' \in {<<0, 0>>, <<0, 1>>, <<1>>}

\* C31: the randomness source is consulted exactly once for each only-rule
\* resolution whose content is an array and never for string content, and
\* the draws are consumed in depth-first left-to-right expansion order: of
\* two nested alternative lists the outer takes the first value and the
\* inner the second.
C31_DrawPerArray == [][DrawPerArray /\ DrawOrder]_vars

(***************************************************************************)
(* C32                                                                     *)
(***************************************************************************)

\* the text contains an action group: an opening bracket with a closing
\* bracket after it
ContainsAction(text) ==
  \E i \in 1..Len(text), j \in 1..Len(text) : i < j /\ text[i] = "[" /\ text[j] = "]"

\* the complete flag of every node is true exactly when its text contains
\* neither a rule reference nor an action group
CompleteAsStated ==
  \A n \in 1..Len(nodes) :
    nodes[n].isNodeComplete_
      <=> (~containsRule(nodes[n].input) /\ ~ContainsAction(nodes[n].input))

\* no step on the tree at hand changes the complete flag or the text of a node
CompleteFixed ==
  SameTree =>
    \A n \in 1..Len(nodes) :
      /\ n <= Len(nodes')
      /\ nodes'[n].isNodeComplete_ = nodes[n].isNodeComplete_
      /\ nodes'[n].input = nodes[n].input

\* C32: a node's complete flag is fixed at construction and never changes
\* afterwards, and it is true exactly when the node's text contains neither
\* a rule reference nor an action group.
C32_CompleteFlag == []CompleteAsStated /\ [][CompleteFixed]_vars

(***************************************************************************)
(* C33                                                                     *)
(***************************************************************************)

\* the rule nodes of the keyless actions: the expansion of [#rule#] gives
\* its child the empty key
KeylessRules == {n \in 1..Len(nodes) : nodes[n].keyName = <<<<>>>>}

\* the number of times pop!! on node n has popped a stack during the calls
\* of Tree::expand
PopsDuringExpansion(ev, n) ==
  Cardinality({i \in 1..Len(ev) :
                 ev[i].op = "pop" /\ ev[i].node = n /\ ev[i].call = "expand"})

\* C33: during one full expansion each occurrence of a keyless action
\* [#k.pop!!#] pops k's stack at most once, also when the action lies inside
\* the expansion of a rule whose result is itself being bound to a key.
C33_PopOnce == \A n \in KeylessRules : PopsDuringExpansion(Events, n) <= 1

(***************************************************************************)
(* C34                                                                     *)
(***************************************************************************)

\* the step is a call of Tree::flatten
FlattenStep == Len(results') = Len(results) + 1

\* the step leaves the runtime dictionary, the nodes and the expansion stack
\* as they are
TreeUnchanged ==
  /\ runtimeDictionary' = runtimeDictionary
  /\ nodes' = nodes
  /\ expandingNodes' = expandingNodes

\* C34: Tree::flatten leaves the tree's runtime dictionary, node graph and
\* expansion stack unchanged, for every set of registered modifiers, the
\* tree modifier pop!! included.
C34_FlattenFrame == [][FlattenStep => TreeUnchanged]_vars

(***************************************************************************)
(* C35                                                                     *)
(***************************************************************************)

\* the text sub occurs in the text
Occurs(sub, text) ==
  \E i \in 1..(Len(text) - Len(sub) + 1) : SubSeq(text, i, i + Len(sub) - 1) = sub

\* Grammar::flatten has returned the text out
GrammarFlattened(out) ==
  /\ mode = "flatten"
  /\ phase = "flattened"
  /\ ~results[1].err
  /\ results[1].out = out

\* the text the finished Grammar::flatten has returned holds the bracket text
\* of none of the key-with-text actions executed during the expansion
NoBracketText(ev) ==
  (mode = "flatten" /\ phase = "flattened") =>
    \A n \in KeyWithTextNodes(ev) : ~Occurs(nodes[n].input, results[1].out)

\* C35: the output of Grammar::flatten never contains the bracket text of a
\* key-with-text action that was executed during the expansion, also when
\* the action was executed inside the expansion of a rule whose flattened
\* value was bound to a key that is referenced later.
C35_NoBracketText == NoBracketText(Events)

(***************************************************************************)
(* C36                                                                     *)
(***************************************************************************)

\* the call of Tree::expand this step makes throws BadHandlerException or
\* WrongParametersException
ExpandThrows ==
  /\ calls' = calls + 1
  /\ Len(history') = Len(history) + 1
  /\ history'[Len(history')].err \in {"BadHandlerException", "WrongParametersException"}

\* the nodes and the runtime dictionary are as before the call, and the node
\* the call was expanding is the top of the expansion stack
NoPartialEffect ==
  /\ nodes' = nodes
  /\ runtimeDictionary' = runtimeDictionary
  /\ expandingNodes' # <<>>
  /\ expandingNodes'[Len(expandingNodes')] = NextNode

\* C36: if a call of Tree::expand throws (bad handler while expanding a node,
\* or wrong parameter count while flattening a node for its key), the tree's
\* nodes and runtime dictionary are the same as before the call and the
\* failing node is still the top of the expansion stack.
C36_NoPartialEffect == [][ExpandThrows => NoPartialEffect]_vars

(***************************************************************************)
(* C37                                                                     *)
(***************************************************************************)

\* C37: in every reachable state of a tree every key present in the runtime
\* dictionary has a non-empty stack, so that taking the top of a present key
\* during rule resolution is always defined.
C37_NoEmptyStack ==
  \A key \in DOMAIN runtimeDictionary : runtimeDictionary[key] # <<>>

\* pop!! has removed the last binding of a key: the key is gone from the
\* runtime dictionary, the other keys are still there
C37_Witness ==
  /\ \E i \in 1..Len(Events) :
       Events[i].op = "pop" /\ Events[i].key \notin DOMAIN runtimeDictionary
  /\ DOMAIN runtimeDictionary # {}

(***************************************************************************)
(* C38                                                                     *)
(***************************************************************************)

\* every node below a hidden node is hidden
HiddenBelow ==
  \A n \in 1..Len(nodes) :
    nodes[n].isNodeHidden_ => \A m \in Subtree(nodes, n) : nodes[m].isNodeHidden_

\* the key-with-rule actions that have been expanded
KeyWithRuleNodes ==
  {n \in 1..Len(nodes) :
     /\ Production(nodes[n].input) = "key-with-rule-action"
     /\ hasChildren(nodes, n)}

\* the flatten r gives the empty text and throws nothing
EmptyText(r) == ~r.err /\ r.out = <<>>

\* C38: in every reachable tree state every descendant of a hidden node is
\* hidden, so that flattening the subtree of a key-with-rule action with
\* ignoreHidden = true yields the empty text however deep the rule expands.
C38_HiddenSubtree ==
  /\ HiddenBelow
  /\ \A n \in KeyWithRuleNodes :
       EmptyText(flatten(nodes, runtimeDictionary, n, TRUE, FALSE))

\* "#[k:#l#]g#" is expanded: the subtree of the action [k:#l#] has several
\* levels, and flattened with the hidden nodes it gives a text
C38_Witness ==
  /\ input = TextKeyNested
  /\ phase = "expanded"
  /\ \E n \in KeyWithRuleNodes :
       /\ Cardinality(Subtree(nodes, n)) >= 6
       /\ flatten(nodes, runtimeDictionary, n, FALSE, FALSE).out # <<>>

(***************************************************************************)
(* C39                                                                     *)
(***************************************************************************)

\* the source has been consulted for the resolution of node n
DrawnFor(ev, n) == \E d \in 1..Len(ev) : ev[d].op = "draw" /\ ev[d].node = n

\* every reference to the key bound by the i-th event, made before the key
\* is bound again or popped, resolves to the string bound and consults the
\* source for nothing
FixedString(ev, i) ==
  \A j \in 1..Len(ev) :
    ResolvesAfter(ev, ev[i].key, i, j) =>
      /\ ev[i].val.t = "string"
      /\ ev[j].val = ev[i].val
      /\ ~DrawnFor(ev, ev[j].node)

\* every binding Tree::handleKey makes is of one fixed string
KeysFixed(ev) == \A i \in 1..Len(ev) : KeyBound(ev, i) => FixedString(ev, i)

\* C39: a key bound by a key-with-rule action holds one fixed string: every
\* reference #k# made between that binding and the next rebinding or pop of
\* k resolves to the identical text and consumes no draw from the randomness
\* source, also when the bound rule is an alternative list.
C39_KeysFixed == KeysFixed(Events)

\* the i-th event binds a key to the text of a rule for which the source was
\* consulted, and two references have resolved to the binding
ChosenAndReferenced(ev, i) ==
  /\ KeyBound(ev, i)
  /\ DrawnFor(ev, ev[i].node)
  /\ \E j1, j2 \in 1..Len(ev) :
       /\ j1 < j2
       /\ ResolvesAfter(ev, ev[i].key, i, j1)
       /\ ResolvesAfter(ev, ev[i].key, i, j2)

\* "#[k:#c#]g##k#", c = ["x", "y"]: k is bound to the element chosen, and both
\* references to k have resolved
C39_Witness ==
  /\ input = TextKeyChoice
  /\ Len(tape) = 1
  /\ \E i \in 1..Len(Events) : ChosenAndReferenced(Events, i)

=============================================================================
